---- MODULE Spec2Model ----
(***************************************************************************)
(* Copilens detection-and-scoring pipeline:                                *)
(*   core/enhanced_ai_detector.py  EnhancedAIDetector                      *)
(*   analyzers/risk.py             RiskAnalyzer                            *)
(*                                                                         *)
(* Python floats are IEEE-754 binary64 values.  The thresholds of the      *)
(* pipeline (> 0.6, > 0.4, round(x, 2), min(0.9, ...)) are hit exactly by  *)
(* the decimal constants of the signature table, so the outcome at a       *)
(* threshold is decided by the rounding of each float operation.  The      *)
(* model therefore computes with binary64 values: a float is the natural   *)
(* number value * 2^(FracLimbs * LimbBits), written in base Base with the  *)
(* least significant limb first and no leading zero limb (<<>> is 0.0).    *)
(* Every float the pipeline produces is 0.0 or at least 2^-12, so this     *)
(* fixed-point form holds each of them exactly.                            *)
(***************************************************************************)
EXTENDS Integers, Sequences, FiniteSets, TLC

\* ------------------------------------------------------------------------
\* Natural numbers of arbitrary size (limbs, least significant first)
\* ------------------------------------------------------------------------
Base == 2^13

RECURSIVE Width(_)
Width(x) == IF x = 0 THEN 0 ELSE 1 + Width(x \div 2)

LimbBits == Width(Base - 1)

One == <<0, 0, 0, 0, 0, 1>>

Zero == <<>>

FracLimbs == Len(One) - 1

Limb(N, i) == IF i >= 1 /\ i <= Len(N) THEN N[i] ELSE 0

RECURSIVE Strip(_)
Strip(N) ==
    IF N = <<>> THEN N
    ELSE IF N[Len(N)] = 0 THEN Strip(SubSeq(N, 1, Len(N) - 1)) ELSE N

BitLen(N) == IF N = <<>> THEN 0 ELSE LimbBits * (Len(N) - 1) + Width(N[Len(N)])

BigAdd(A, B) ==
    LET n == IF Len(A) > Len(B) THEN Len(A) ELSE Len(B)
        RECURSIVE go(_, _)
        go(i, c) ==
            IF i > n THEN (IF c = 0 THEN <<>> ELSE <<c>>)
            ELSE LET s == Limb(A, i) + Limb(B, i) + c
                 IN  <<s % Base>> \o go(i + 1, s \div Base)
    IN  go(1, 0)

\* A - B for A >= B
BigSub(A, B) ==
    LET RECURSIVE go(_, _)
        go(i, b) ==
            IF i > Len(A) THEN <<>>
            ELSE LET s == A[i] - Limb(B, i) - b
                 IN  IF s < 0 THEN <<s + Base>> \o go(i + 1, 1)
                     ELSE <<s>> \o go(i + 1, 0)
    IN  Strip(go(1, 0))

MulSmall(A, k) ==
    LET RECURSIVE go(_, _)
        go(i, c) ==
            IF i > Len(A)
            THEN (IF c = 0 THEN <<>> ELSE <<c % Base>> \o go(i, c \div Base))
            ELSE LET s == A[i] * k + c
                 IN  <<s % Base>> \o go(i + 1, s \div Base)
    IN  Strip(go(1, 0))

BigMul(A, B) ==
    LET RECURSIVE go(_)
        go(j) ==
            IF j > Len(B) THEN <<>>
            ELSE BigAdd(MulSmall(A, B[j]), <<0>> \o go(j + 1))
    IN  Strip(go(1))

\* <<A div d, A mod d>> for a small positive d
DivSmall(A, d) ==
    LET RECURSIVE go(_, _)
        go(i, r) ==
            IF i = 0 THEN <<<<>>, r>>
            ELSE LET cur  == r * Base + A[i]
                     rest == go(i - 1, cur % d)
                 IN  <<rest[1] \o <<cur \div d>>, rest[2]>>
        qr == go(Len(A), 0)
    IN  <<Strip(qr[1]), qr[2]>>

BigLt(x, y) ==
    \/ Len(x) < Len(y)
    \/ /\ Len(x) = Len(y)
       /\ \E i \in 1..Len(x) :
            /\ x[i] < y[i]
            /\ \A j \in (i + 1)..Len(x) : x[j] = y[j]

Bit(N, i) == (Limb(N, (i \div LimbBits) + 1) \div 2^(i % LimbBits)) % 2

LowZero(N, t) ==
    /\ \A j \in 1..(t \div LimbBits) : Limb(N, j) = 0
    /\ Limb(N, (t \div LimbBits) + 1) % 2^(t % LimbBits) = 0

ClearLow(N, s) ==
    [i \in 1..Len(N) |->
        IF i <= s \div LimbBits THEN 0
        ELSE IF i = (s \div LimbBits) + 1 THEN N[i] - (N[i] % 2^(s % LimbBits))
        ELSE N[i]]

Pow2(s) ==
    [i \in 1..((s \div LimbBits) + 1) |->
        IF i = (s \div LimbBits) + 1 THEN 2^(s % LimbBits) ELSE 0]

\* ------------------------------------------------------------------------
\* binary64 operations: the exact result rounded to 53 significant bits,
\* ties to even.  sticky tells that the exact result lies strictly above N.
\* ------------------------------------------------------------------------
RoundNearestEven(N, sticky) ==
    LET s == BitLen(N) - 53
    IN  IF s <= 0 THEN N
        ELSE LET up == /\ Bit(N, s - 1) = 1
                       /\ (sticky \/ ~LowZero(N, s - 1) \/ Bit(N, s) = 1)
                 T  == ClearLow(N, s)
             IN  Strip(IF up THEN BigAdd(T, Pow2(s)) ELSE T)

\* float(n) for an int n >= 0
FromInt(n) == MulSmall(One, n)

\* x + y
FAdd(x, y) == RoundNearestEven(BigAdd(x, y), FALSE)

\* abs(x - y)
FAbsDiff(x, y) ==
    RoundNearestEven(IF BigLt(x, y) THEN BigSub(y, x) ELSE BigSub(x, y), FALSE)

\* x * y
FMul(x, y) ==
    LET R == RoundNearestEven(BigMul(x, y), FALSE)
    IN  SubSeq(R, FracLimbs + 1, Len(R))

\* x / d for an int d > 0
FDiv(x, d) ==
    LET qr == DivSmall(<<0, 0>> \o x, d)
        R  == RoundNearestEven(qr[1], qr[2] # 0)
    IN  IF x = <<>> THEN x ELSE SubSeq(R, 3, Len(R))

FLt(x, y) == BigLt(x, y)

FGt(x, y) == BigLt(y, x)

FGe(x, y) == ~BigLt(x, y)

FLe(x, y) == ~BigLt(y, x)

\* min(x, y) of Python: y when y < x, else x
FMin(x, y) == IF FLt(y, x) THEN y ELSE x

\* the float written as the decimal literal p/q (0.6 is Lit(6, 10))
Lit(p, q) == FDiv(FromInt(p), q)

\* round(x, ndigits) * 10^ndigits as an integer, scale = 10^ndigits: Python
\* rounds the exact binary value of x, ties to even
RoundDigits(x, scale) ==
    LET P  == MulSmall(x, scale)
        fb == FracLimbs * LimbBits
        q  == Limb(P, FracLimbs + 1) + Base * Limb(P, FracLimbs + 2)
        up == /\ Bit(P, fb - 1) = 1
              /\ (~LowZero(P, fb - 1) \/ q % 2 = 1)
    IN  IF up THEN q + 1 ELSE q

\* round(x, ndigits): the float nearest to the rounded decimal
PyRound(x, scale) == Lit(RoundDigits(x, scale), scale)

\* sum(xs) of floats.  CPython before 3.12 adds left to right from 0 and
\* rounds after each addition; CPython 3.12 and later use compensated
\* summation, which for these operands returns the exact sum rounded once.
\* setup.py accepts both (python_requires >= 3.8).
RECURSIVE SumSequential(_, _)
SumSequential(xs, acc) ==
    IF xs = <<>> THEN acc ELSE SumSequential(Tail(xs), FAdd(acc, Head(xs)))

RECURSIVE SumExact(_)
SumExact(xs) == IF xs = <<>> THEN <<>> ELSE BigAdd(Head(xs), SumExact(Tail(xs)))

Interpreters == {"sequential_sum", "compensated_sum"}

PySum(xs, interp) ==
    IF interp = "sequential_sum" THEN SumSequential(xs, Zero)
    ELSE RoundNearestEven(Strip(SumExact(xs)), FALSE)

\* ------------------------------------------------------------------------
\* Strings (file paths) are sequences of characters
\* ------------------------------------------------------------------------
EndsWith(s, suffix) ==
    /\ Len(suffix) <= Len(s)
    /\ SubSeq(s, Len(s) - Len(suffix) + 1, Len(s)) = suffix

Contains(s, sub) ==
    \E i \in 1..(Len(s) - Len(sub) + 1) : SubSeq(s, i, i + Len(sub) - 1) = sub

UpperToLower ==
    [c \in {"A", "D", "E", "J", "M", "N", "O", "R", "S"} |->
        CASE c = "A" -> "a" [] c = "D" -> "d" [] c = "E" -> "e"
          [] c = "J" -> "j" [] c = "M" -> "m" [] c = "N" -> "n"
          [] c = "O" -> "o" [] c = "R" -> "r" [] c = "S" -> "s"]

Lower(s) ==
    [i \in 1..Len(s) |-> IF s[i] \in DOMAIN UpperToLower THEN UpperToLower[s[i]] ELSE s[i]]

\* ------------------------------------------------------------------------
\* Inputs
\* ------------------------------------------------------------------------
MaxAddedLines == 102
MaxVerbose == 4
MaxTypeHints == 4
MaxErrorHandling == 3
MaxHelperFuncs == 2
MaxLines == 5

\* "utils.py", "README.md", "Auth.json"
FilePaths ==
    { <<"u", "t", "i", "l", "s", ".", "p", "y">>,
      <<"R", "E", "A", "D", "M", "E", ".", "m", "d">>,
      <<"A", "u", "t", "h", ".", "j", "s", "o", "n">> }

\* A line of diff text is <<leading whitespace, remaining characters>>; it is
\* blank (l.strip() is empty) when nothing remains after the whitespace.
UniformLines(n) == [i \in 1..n |-> <<4, 30>>]

RaggedLines(n) == [i \in 1..n |-> IF i % 2 = 1 THEN <<4, 10>> ELSE <<4, 82>>]

BlankLines(n) == [i \in 1..n |-> <<4, 0>>]

LineLists ==
    { <<>>,
      BlankLines(1) \o UniformLines(MaxLines - 1),
      UniformLines(MaxLines),
      RaggedLines(MaxLines) }

\* A diff text is given by the number of matches re.findall returns for the
\* regular expressions of each signature, and by the shape of its lines.
DiffContents ==
    [ verbose_count   : 0..MaxVerbose,
      type_hint_count : {0, MaxTypeHints - 1, MaxTypeHints},
      error_handling  : {0, MaxErrorHandling - 1, MaxErrorHandling},
      helper_funcs    : {0, MaxHelperFuncs - 1, MaxHelperFuncs},
      lines           : LineLists ]

\* ------------------------------------------------------------------------
\* EnhancedAIDetector
\* ------------------------------------------------------------------------
AIPattern(type, conf) == [pattern_type |-> type, confidence |-> conf]

IsBlank(l) == l[2] = 0

NonBlank(lines) == SelectSeq(lines, LAMBDA l : ~IsBlank(l))

LineLen(l) == l[1] + l[2]

RECURSIVE IntSum(_)
IntSum(xs) == IF xs = <<>> THEN 0 ELSE Head(xs) + IntSum(Tail(xs))

CheckConsistency_FourLines(code, interp) ==
    LET lines   == NonBlank(code.lines)
        n       == Len(lines)
        indents == {lines[i][1] : i \in 1..n}
        indent_consistency == FDiv(FromInt(Cardinality(indents)), n)
        line_lengths == [i \in 1..n |-> LineLen(lines[i])]
        avg_length == FDiv(FromInt(IntSum(line_lengths)), n)
        length_variance ==
            FDiv(PySum([i \in 1..n |-> FAbsDiff(FromInt(line_lengths[i]), avg_length)],
                       interp), n)
    IN  IF n < 4 THEN FALSE
        ELSE FLt(indent_consistency, Lit(3, 10)) /\ FLt(length_variance, FromInt(20))

\* _check_consistency(code)
CheckConsistency(code, interp) ==
    LET lines   == NonBlank(code.lines)
        n       == Len(lines)
        indents == {lines[i][1] : i \in 1..n}
        indent_consistency == FDiv(FromInt(Cardinality(indents)), n)
        line_lengths == [i \in 1..n |-> LineLen(lines[i])]
        avg_length == FDiv(FromInt(IntSum(line_lengths)), n)
        length_variance ==
            FDiv(PySum([i \in 1..n |-> FAbsDiff(FromInt(line_lengths[i]), avg_length)],
                       interp), n)
    IN  IF n < 5 THEN FALSE
        ELSE FLt(indent_consistency, Lit(3, 10)) /\ FLt(length_variance, FromInt(20))

LargeInsertionConfidence_Uncapped(added_lines) ==
    FAdd(Lit(6, 10), FMul(FDiv(FromInt(added_lines), 100), Lit(3, 10)))

\* line 100
LargeInsertionConfidence(added_lines) ==
    FMin(Lit(9, 10), FAdd(Lit(6, 10), FMul(FDiv(FromInt(added_lines), 100), Lit(3, 10))))

FMax(x, y) == IF FGt(y, x) THEN y ELSE x

VerboseConfidence_Max(verbose_count) ==
    FMax(Lit(85, 100), FAdd(Lit(5, 10), FMul(FromInt(verbose_count), Lit(15, 100))))

\* line 115
VerboseConfidence(verbose_count) ==
    FMin(Lit(85, 100), FAdd(Lit(5, 10), FMul(FromInt(verbose_count), Lit(15, 100))))

TypeHintConfidence_LowerStep(type_hint_count) ==
    FMin(Lit(8, 10), FAdd(Lit(6, 10), FMul(FromInt(type_hint_count), Lit(4, 100))))

\* line 127
TypeHintConfidence(type_hint_count) ==
    FMin(Lit(8, 10), FAdd(Lit(6, 10), FMul(FromInt(type_hint_count), Lit(5, 100))))

\* detect_ai_patterns(code, added_lines)
DetectAIPatterns(code, added_lines, interp) ==
    (IF added_lines >= 50
     THEN <<AIPattern("large_insertion", LargeInsertionConfidence(added_lines))>>
     ELSE <<>>)
    \o (IF code.verbose_count > 0
        THEN <<AIPattern("verbose_comments", VerboseConfidence(code.verbose_count))>>
        ELSE <<>>)
    \o (IF code.type_hint_count > 3
        THEN <<AIPattern("type_hints_everywhere", TypeHintConfidence(code.type_hint_count))>>
        ELSE <<>>)
    \o (IF code.error_handling > 2
        THEN <<AIPattern("comprehensive_error_handling", Lit(65, 100))>>
        ELSE <<>>)
    \o (IF code.helper_funcs > 1
        THEN <<AIPattern("helper_function_naming", Lit(55, 100))>>
        ELSE <<>>)
    \o (IF CheckConsistency(code, interp)
        THEN <<AIPattern("consistent_style", Lit(6, 10))>>
        ELSE <<>>)

NonCodeExtensions_NoJson ==
    { <<".", "m", "d">>, <<".", "t", "x", "t">>,
      <<".", "y", "m", "l">>, <<".", "y", "a", "m", "l">> }

\* line 217: '.md', '.txt', '.json', '.yml', '.yaml'
NonCodeExtensions ==
    { <<".", "m", "d">>, <<".", "t", "x", "t">>, <<".", "j", "s", "o", "n">>,
      <<".", "y", "m", "l">>, <<".", "y", "a", "m", "l">> }

IsNonCodeFile(file_path) == \E ext \in NonCodeExtensions : EndsWith(file_path, ext)

EmptyDiffResult_LowConfidence ==
    [ ai_percentage    |-> Zero,
      confidence_level |-> "low",
      patterns         |-> <<>>,
      warnings         |-> <<>>,
      metadata         |-> [added_lines |-> 0] ]

\* lines 173-180: the result for a diff that adds nothing
EmptyDiffResult ==
    [ ai_percentage    |-> Zero,
      confidence_level |-> "high",
      patterns         |-> <<>>,
      warnings         |-> <<>>,
      metadata         |-> [added_lines |-> 0] ]

FewPatternsWarning == "Few patterns detected - low confidence estimate"

LimitedIndicatorsWarning == "Limited indicators - estimate may be inaccurate"

VerySmallChangeWarning == "Very small change - difficult to accurately assess"

NonCodeFileWarning == "Non-code file - AI detection may be inaccurate"

NoPatternPercentage_Zero == Zero

NoPatternPercentage_Third == Lit(3, 10)

\* line 187
NoPatternPercentage == Lit(1, 10)

RECURSIVE Confidences(_)
Confidences(ps) ==
    IF ps = <<>> THEN <<>> ELSE <<Head(ps).confidence>> \o Confidences(Tail(ps))

WeightedScore_BoostFromThree(ps, interp) ==
    LET total_score   == PySum(Confidences(ps), interp)
        pattern_count == Len(ps)
        base          == FMin(One, FDiv(total_score, pattern_count))
    IN  IF pattern_count >= 3 THEN FMin(One, FMul(base, Lit(12, 10))) ELSE base

\* lines 192-200: the percentage before rounding
WeightedScore(ps, interp) ==
    LET total_score   == PySum(Confidences(ps), interp)
        pattern_count == Len(ps)
        base          == FMin(One, FDiv(total_score, pattern_count))
    IN  IF pattern_count >= 4 THEN FMin(One, FMul(base, Lit(12, 10))) ELSE base

ConfidenceLevel_HighFromFour(pattern_count, ai) ==
    IF pattern_count >= 4 /\ FGt(ai, Lit(6, 10)) THEN "high"
    ELSE IF pattern_count >= 2 \/ FGt(ai, Lit(4, 10)) THEN "medium"
    ELSE "low"

ConfidenceLevel_MediumAbove60(pattern_count, ai) ==
    IF pattern_count >= 3 /\ FGt(ai, Lit(6, 10)) THEN "high"
    ELSE IF pattern_count >= 2 \/ FGt(ai, Lit(6, 10)) THEN "medium"
    ELSE "low"

\* lines 203-208
ConfidenceLevel(pattern_count, ai) ==
    IF pattern_count >= 3 /\ FGt(ai, Lit(6, 10)) THEN "high"
    ELSE IF pattern_count >= 2 \/ FGt(ai, Lit(4, 10)) THEN "medium"
    ELSE "low"

IsSmallChange_BelowFive(added_lines) == added_lines < 5

\* line 212
IsSmallChange(added_lines) == added_lines < 10

\* lines 220-230
DetectionResult(ai, level, ps, ws, added_lines, file_path) ==
    [ ai_percentage    |-> PyRound(ai, 100),
      confidence_level |-> level,
      patterns         |-> ps,
      warnings         |-> ws,
      metadata         |-> [ added_lines   |-> added_lines,
                             pattern_count |-> Len(ps),
                             file_path     |-> file_path ] ]

\* ------------------------------------------------------------------------
\* RiskAnalyzer
\* ------------------------------------------------------------------------
\* "auth", "security", "login", "password", "token", "config", "settings"
SECURITY_SENSITIVE_FILES ==
    { <<"a", "u", "t", "h">>,
      <<"s", "e", "c", "u", "r", "i", "t", "y">>,
      <<"l", "o", "g", "i", "n">>,
      <<"p", "a", "s", "s", "w", "o", "r", "d">>,
      <<"t", "o", "k", "e", "n">>,
      <<"c", "o", "n", "f", "i", "g">>,
      <<"s", "e", "t", "t", "i", "n", "g", "s">> }

IsSecuritySensitive_CaseSensitive(file_path) ==
    \E pattern \in SECURITY_SENSITIVE_FILES : Contains(file_path, pattern)

\* _is_security_sensitive(file_path)
IsSecuritySensitive(file_path) ==
    \E pattern \in SECURITY_SENSITIVE_FILES : Contains(Lower(file_path), pattern)

RiskFactor(name, score, severity) == [name |-> name, score |-> score, severity |-> severity]

AIContributionFactor_HighAbove80(ai) ==
    IF FGt(ai, Lit(8, 10))
    THEN <<RiskFactor("High AI Contribution", FromInt(4), "high")>>
    ELSE IF FGt(ai, Lit(5, 10))
    THEN <<RiskFactor("Moderate AI Contribution", Lit(25, 10), "medium")>>
    ELSE <<>>

\* lines 44-58
AIContributionFactor(ai) ==
    IF FGt(ai, Lit(7, 10))
    THEN <<RiskFactor("High AI Contribution", FromInt(4), "high")>>
    ELSE IF FGt(ai, Lit(5, 10))
    THEN <<RiskFactor("Moderate AI Contribution", Lit(25, 10), "medium")>>
    ELSE <<>>

\* lines 60-74
ComplexityFactor(complexity_delta) ==
    IF complexity_delta > 20
    THEN <<RiskFactor("High Complexity Increase", Lit(45, 10), "critical")>>
    ELSE IF complexity_delta > 10
    THEN <<RiskFactor("Moderate Complexity Increase", FromInt(3), "high")>>
    ELSE <<>>

InsertionFactor_From100(added_lines) ==
    IF added_lines > 200
    THEN <<RiskFactor("Large Code Insertion", Lit(35, 10), "high")>>
    ELSE IF added_lines >= 100
    THEN <<RiskFactor("Significant Code Addition", FromInt(2), "medium")>>
    ELSE <<>>

InsertionFactor_LowScore(added_lines) ==
    IF added_lines > 200
    THEN <<RiskFactor("Large Code Insertion", Lit(35, 10), "high")>>
    ELSE IF added_lines > 100
    THEN <<RiskFactor("Significant Code Addition", Lit(15, 10), "medium")>>
    ELSE <<>>

\* lines 76-90
InsertionFactor(added_lines) ==
    IF added_lines > 200
    THEN <<RiskFactor("Large Code Insertion", Lit(35, 10), "high")>>
    ELSE IF added_lines > 100
    THEN <<RiskFactor("Significant Code Addition", FromInt(2), "medium")>>
    ELSE <<>>

\* lines 92-99
SecurityFactor(file_path) ==
    IF IsSecuritySensitive(file_path)
    THEN <<RiskFactor("Security-Sensitive File", FromInt(4), "critical")>>
    ELSE <<>>

\* lines 101-108
MissingTestsFactor(has_tests, added_lines) ==
    IF ~has_tests /\ added_lines > 50
    THEN <<RiskFactor("Missing Test Coverage", FromInt(3), "high")>>
    ELSE <<>>

RECURSIVE Scores(_)
Scores(fs) == IF fs = <<>> THEN <<>> ELSE <<Head(fs).score>> \o Scores(Tail(fs))

TotalScore_ZeroBaseline(factors, interp) ==
    IF factors = <<>> THEN Zero
    ELSE FMin(FromInt(5), FDiv(PySum(Scores(factors), interp), Len(factors)))

TotalScore_Sum(factors, interp) ==
    IF factors = <<>> THEN One ELSE PySum(Scores(factors), interp)

\* lines 111-115: the total before rounding
TotalScore(factors, interp) ==
    IF factors = <<>> THEN One
    ELSE FMin(FromInt(5), FDiv(PySum(Scores(factors), interp), Len(factors)))

RiskLevel_HighFrom35(factors, total_score) ==
    IF factors = <<>> THEN "low"
    ELSE IF FGe(total_score, FromInt(4)) THEN "critical"
    ELSE IF FGe(total_score, Lit(35, 10)) THEN "high"
    ELSE IF FGe(total_score, FromInt(2)) THEN "medium"
    ELSE "low"

\* lines 111-124
RiskLevel(factors, total_score) ==
    IF factors = <<>> THEN "low"
    ELSE IF FGe(total_score, FromInt(4)) THEN "critical"
    ELSE IF FGe(total_score, FromInt(3)) THEN "high"
    ELSE IF FGe(total_score, FromInt(2)) THEN "medium"
    ELSE "low"

\* calculate_risk(ai_percentage, complexity_delta, added_lines, file_path, has_tests)
CalculateRisk(ai, complexity_delta, added_lines, file_path, has_tests, interp) ==
    LET factors == AIContributionFactor(ai)
                   \o ComplexityFactor(complexity_delta)
                   \o InsertionFactor(added_lines)
                   \o SecurityFactor(file_path)
                   \o MissingTestsFactor(has_tests, added_lines)
        total_score == TotalScore(factors, interp)
    IN  [ total_score |-> PyRound(total_score, 10),
          factors     |-> factors,
          level       |-> RiskLevel(factors, total_score) ]

\* ------------------------------------------------------------------------
\* MetricsEngine (analyzers/metrics.py)
\* ------------------------------------------------------------------------
MaxFiles == 3

\* FileMetrics records pushed by the callers
FileMetricsValues ==
    { [ file_path |-> <<"u", "t", "i", "l", "s", ".", "p", "y">>,
        ai_percentage |-> Lit(1, 10), added_lines |-> 5, deleted_lines |-> 0,
        complexity |-> 0, risk_score |-> One, risk_level |-> "low" ],
      [ file_path |-> <<"R", "E", "A", "D", "M", "E", ".", "m", "d">>,
        ai_percentage |-> Lit(57, 100), added_lines |-> 60, deleted_lines |-> 3,
        complexity |-> 6, risk_score |-> FromInt(3), risk_level |-> "high" ],
      [ file_path |-> <<"A", "u", "t", "h", ".", "j", "s", "o", "n">>,
        ai_percentage |-> Lit(73, 100), added_lines |-> 120, deleted_lines |-> 10,
        complexity |-> 12, risk_score |-> Lit(28, 10), risk_level |-> "medium" ],
      [ file_path |-> <<"u", "t", "i", "l", "s", ".", "p", "y">>,
        ai_percentage |-> Lit(9, 10), added_lines |-> 250, deleted_lines |-> 1,
        complexity |-> 25, risk_score |-> Lit(41, 10), risk_level |-> "critical" ],
      [ file_path |-> <<"R", "E", "A", "D", "M", "E", ".", "m", "d">>,
        ai_percentage |-> Zero, added_lines |-> 0, deleted_lines |-> 7,
        complexity |-> -1, risk_score |-> One, risk_level |-> "low" ] }

IsHighRisk_CriticalOnly(m) == m.risk_level = "critical"

\* line 56: m.risk_level in ["high", "critical"]
IsHighRisk(m) == m.risk_level \in {"high", "critical"}

\* lines 42-50
EmptyAggregate ==
    [ total_files            |-> 0,
      total_added_lines      |-> 0,
      total_deleted_lines    |-> 0,
      average_ai_percentage  |-> Zero,
      average_risk_score     |-> Zero,
      high_risk_files        |-> 0,
      total_complexity_delta |-> 0 ]

\* calculate_aggregate()
CalculateAggregate(ms, interp) ==
    IF ms = <<>> THEN EmptyAggregate
    ELSE
    LET n == Len(ms)
        total_added   == IntSum([i \in 1..n |-> ms[i].added_lines])
        total_deleted == IntSum([i \in 1..n |-> ms[i].deleted_lines])
        avg_ai   == FDiv(PySum([i \in 1..n |-> ms[i].ai_percentage], interp), n)
        avg_risk == FDiv(PySum([i \in 1..n |-> ms[i].risk_score], interp), n)
        high_risk == Len(SelectSeq(ms, IsHighRisk))
        total_complexity == IntSum([i \in 1..n |-> ms[i].complexity])
    IN  [ total_files            |-> n,
          total_added_lines      |-> total_added,
          total_deleted_lines    |-> total_deleted,
          average_ai_percentage  |-> PyRound(avg_ai, 100),
          average_risk_score     |-> PyRound(avg_risk, 100),
          high_risk_files        |-> high_risk,
          total_complexity_delta |-> total_complexity ]

\* ------------------------------------------------------------------------
\* AIDetector (core/ai_detector.py), the simple detector
\* ------------------------------------------------------------------------
MaxFunctions == 4

\* the four boilerplate expressions searched by re.search
BoilerplatePatterns == 4

\* A text is given by the number of boilerplate expressions found in it and
\* by the number of matches of the complete-function expressions.
SimpleContents ==
    [ boilerplate_count : 0..BoilerplatePatterns, function_count : 0..MaxFunctions ]

\* AIDetector.detect_ai_patterns(code, added_lines)
AIDetector_DetectAIPatterns(code, added_lines) ==
    (IF added_lines >= 50
     THEN <<AIPattern("large_insertion",
                      FMin(Lit(9, 10),
                           FAdd(Lit(6, 10),
                                FMul(FDiv(FromInt(added_lines), 100), Lit(3, 10)))))>>
     ELSE <<>>)
    \o (IF code.boilerplate_count > 0
        THEN <<AIPattern("boilerplate",
                         FMin(Lit(8, 10),
                              FAdd(Lit(4, 10),
                                   FMul(FromInt(code.boilerplate_count), Lit(15, 100)))))>>
        ELSE <<>>)
    \o (IF code.function_count > 0
        THEN <<AIPattern("complete_function",
                         FMin(Lit(85, 100),
                              FAdd(Lit(5, 10),
                                   FMul(FromInt(code.function_count), Lit(1, 10)))))>>
        ELSE <<>>)

AIDetector_CalculateAIPercentage_Uncapped(diff_content, added_lines, interp) ==
    LET ps == AIDetector_DetectAIPatterns(diff_content, added_lines)
    IN  IF added_lines = 0 THEN Zero
        ELSE IF ps = <<>> THEN Lit(1, 10)
        ELSE FAdd(FDiv(PySum(Confidences(ps), interp), Len(ps)),
                  FMin(Lit(3, 10), FMul(FromInt(Len(ps)), Lit(1, 10))))

\* AIDetector.calculate_ai_percentage(diff_content, added_lines)
AIDetector_CalculateAIPercentage(diff_content, added_lines, interp) ==
    LET ps == AIDetector_DetectAIPatterns(diff_content, added_lines)
        total_confidence == PySum(Confidences(ps), interp)
        avg_confidence   == FDiv(total_confidence, Len(ps))
        adjustment       == FMin(Lit(3, 10), FMul(FromInt(Len(ps)), Lit(1, 10)))
    IN  IF added_lines = 0 THEN Zero
        ELSE IF ps = <<>> THEN Lit(1, 10)
        ELSE FMin(One, FAdd(avg_confidence, adjustment))

\* ------------------------------------------------------------------------
\* stats command (commands/stats.py, _show_git_diff_stats)
\* ------------------------------------------------------------------------
MaxDiffs == 2

\* diff texts: no signature; one formatted comment; error handling, helper
\* names and uniform lines; type hints and long docstrings
StatsContents ==
    { [verbose_count |-> 0, type_hint_count |-> 0, error_handling |-> 0,
       helper_funcs |-> 0, lines |-> <<>>],
      [verbose_count |-> 1, type_hint_count |-> 0, error_handling |-> 0,
       helper_funcs |-> 0, lines |-> <<>>],
      [verbose_count |-> 0, type_hint_count |-> 0, error_handling |-> MaxErrorHandling,
       helper_funcs |-> MaxHelperFuncs, lines |-> UniformLines(MaxLines)],
      [verbose_count |-> MaxVerbose, type_hint_count |-> MaxTypeHints,
       error_handling |-> 0, helper_funcs |-> 0, lines |-> <<>>] }

StatsAddedLines == {0, 10, 49, 50, MaxAddedLines}

\* GitDiff records returned by GitAnalyzer.get_diff
GitDiffs ==
    [ file_path : { <<"u", "t", "i", "l", "s", ".", "p", "y">>,
                    <<"A", "u", "t", "h", ".", "j", "s", "o", "n">> },
      diff_content : StatsContents,
      added_lines : StatsAddedLines, deleted_lines : {1} ]

\* change sets: none, one file, or several files drawn from three diffs
DiffLists ==
    LET several == { d \in GitDiffs :
                       \/ /\ d.added_lines = 0
                          /\ d.diff_content.verbose_count = 1
                          /\ d.file_path[1] = "u"
                       \/ /\ d.added_lines = MaxAddedLines
                          /\ d.diff_content.verbose_count = MaxVerbose
                          /\ d.file_path[1] = "A"
                       \/ /\ d.added_lines = 10
                          /\ d.diff_content.verbose_count = 0
                          /\ d.diff_content.lines = <<>>
                          /\ d.file_path[1] = "u" }
    IN  {<<>>}
        \cup {<<d>> : d \in GitDiffs}
        \cup UNION {[1..k -> several] : k \in 2..MaxDiffs}

VARIABLES interp, pc, call, patterns, warnings, ai_percentage, confidence_level, ret,
          file_metrics, prev, diffs,
          available, providers, attempts,
          history, state_file, checks, clock,
          agent_state, current_goal, current_plan, tools, iteration, results

\* the fields of the MultiProviderLLM and the provider calls of its last call
llmVars == <<available, providers, attempts>>

\* the fields of the HealthChecker, its state file and its clock
healthVars == <<history, state_file, checks, clock>>

\* the fields of the AutonomousAgent and the locals of run_autonomous
agentVars == <<agent_state, current_goal, current_plan, tools, iteration, results>>

\* the state of the detection-and-scoring pipeline apart from pc, call and ret
coreVars == <<patterns, warnings, ai_percentage, confidence_level, file_metrics, prev, diffs>>

vars == <<interp, pc, call, patterns, warnings, ai_percentage, confidence_level, ret,
          file_metrics, prev, diffs, llmVars, healthVars, agentVars>>

NoCall == [fn |-> "none"]

AddedLinesValues == {0, 1, 9, 10, 50, MaxAddedLines}

\* n lines of which the first k have a characters and the others b, with
\* indentation widths cycling through 0, 4, .., 4 * (d - 1)
TwoLengthLines(n, k, a, b, d) ==
    [i \in 1..n |-> <<4 * (i % d), (IF i <= k THEN a ELSE b) - 4 * (i % d)>>]

\* texts at the thresholds of _check_consistency: mean deviation of the line
\* length exactly 20 and just below, indentation diversity exactly 0.3 and
\* just below, and whitespace-only lines between the others
StyleLineLists ==
    LineLists \cup
    { TwoLengthLines(6, 3, 10, 50, 1),
      TwoLengthLines(6, 3, 10, 49, 1),
      TwoLengthLines(10, 10, 40, 40, 3),
      TwoLengthLines(7, 7, 40, 40, 2),
      TwoLengthLines(5, 5, 40, 40, 2),
      BlankLines(2) \o UniformLines(5) \o BlankLines(1),
      BlankLines(5),
      UniformLines(4),
      UniformLines(1) }

StyleContents ==
    [ verbose_count : {0}, type_hint_count : {0}, error_handling : {0},
      helper_funcs : {0}, lines : StyleLineLists ]

\* arguments of detect_ai_patterns called on its own: every content at the
\* line counts above, and every line count up to MaxAddedLines for the
\* contents without lines, error handling and helper names
PatternInputs ==
    (DiffContents \X AddedLinesValues)
    \cup ({c \in DiffContents :
              c.lines = <<>> /\ c.error_handling = 0 /\ c.helper_funcs = 0}
          \X (0..MaxAddedLines))
    \cup (StyleContents \X {10})

\* arguments of calculate_risk; "auth_config.py" contains two keywords
RiskFilePaths ==
    FilePaths \cup { <<"a", "u", "t", "h", "_", "c", "o", "n", "f", "i", "g", ".", "p", "y">> }

RiskAIPercentages == {Lit(h, 100) : h \in {0, 50, 51, 70, 71, 100}}

RiskComplexityDeltas == {-1, 10, 11, 20, 21}

RiskAddedLines == {0, 50, 51, 100, 101, 200, 201}

\* the three provider classes of llm_provider.py
ProviderNames == {"Gemini", "OpenAI", "Anthropic"}

\* monitoring.json does not exist
NoStateFile == [exists |-> FALSE, history |-> <<>>]

\* current_goal and current_plan are None
NoGoal == [id |-> "none"]

NoPlan == [id |-> "none"]

Init ==
    /\ interp \in Interpreters
    /\ pc = "idle"
    /\ call = NoCall
    /\ patterns = <<>>
    /\ warnings = <<>>
    /\ ai_percentage = Zero
    /\ confidence_level = "none"
    /\ ret = NoCall
    /\ file_metrics = <<>>
    /\ prev = NoCall
    /\ diffs = <<>>
    /\ available = [name \in ProviderNames |-> FALSE]
    /\ providers = <<>>
    /\ attempts = <<>>
    /\ history = <<>>
    /\ state_file = NoStateFile
    /\ checks = 0
    /\ clock = 0
    /\ agent_state = "idle"
    /\ current_goal = NoGoal
    /\ current_plan = NoPlan
    /\ tools = {}
    /\ iteration = 0
    /\ results = NoCall

\* calculate_ai_percentage(diff_content, added_lines, file_path) is called
CallCalculateAIPercentage ==
    /\ pc = "idle"
    /\ \E code \in DiffContents, n \in AddedLinesValues, path \in FilePaths :
         call' = [ fn |-> "calculate_ai_percentage", diff_content |-> code,
                   added_lines |-> n, file_path |-> path ]
    /\ pc' = "entry"
    /\ patterns' = <<>>
    /\ warnings' = <<>>
    /\ ai_percentage' = Zero
    /\ confidence_level' = "none"
    /\ ret' = NoCall
    /\ UNCHANGED <<interp, file_metrics, prev, diffs,
                   llmVars, healthVars, agentVars>>

\* lines 173-180
ReturnEmptyDiff ==
    /\ pc = "entry"
    /\ call.added_lines = 0
    /\ ret' = EmptyDiffResult
    /\ pc' = "done"
    /\ UNCHANGED <<interp, call, patterns, warnings, ai_percentage, confidence_level, file_metrics, prev, diffs,
                   llmVars, healthVars, agentVars>>

\* lines 182-183
DetectPatterns ==
    /\ pc = "entry"
    /\ call.added_lines # 0
    /\ patterns' = DetectAIPatterns(call.diff_content, call.added_lines, interp)
    /\ warnings' = <<>>
    /\ pc' = "score"
    /\ UNCHANGED <<interp, call, ai_percentage, confidence_level, ret, file_metrics, prev, diffs,
                   llmVars, healthVars, agentVars>>

\* lines 185-189
ScoreNoPatterns ==
    /\ pc = "score"
    /\ patterns = <<>>
    /\ ai_percentage' = NoPatternPercentage
    /\ confidence_level' = "low"
    /\ warnings' = Append(warnings, FewPatternsWarning)
    /\ pc' = "small_change"
    /\ UNCHANGED <<interp, call, patterns, ret, file_metrics, prev, diffs,
                   llmVars, healthVars, agentVars>>

\* lines 190-209
ScorePatterns ==
    /\ pc = "score"
    /\ patterns # <<>>
    /\ LET ai    == WeightedScore(patterns, interp)
           level == ConfidenceLevel(Len(patterns), ai)
       IN  /\ ai_percentage' = ai
           /\ confidence_level' = level
           /\ warnings' = IF level = "low"
                          THEN Append(warnings, LimitedIndicatorsWarning)
                          ELSE warnings
    /\ pc' = "small_change"
    /\ UNCHANGED <<interp, call, patterns, ret, file_metrics, prev, diffs,
                   llmVars, healthVars, agentVars>>

\* lines 211-214
SmallChange ==
    /\ pc = "small_change"
    /\ IF IsSmallChange(call.added_lines)
       THEN /\ warnings' = Append(warnings, VerySmallChangeWarning)
            /\ confidence_level' = "low"
       ELSE UNCHANGED <<warnings, confidence_level>>
    /\ pc' = "file_type"
    /\ UNCHANGED <<interp, call, patterns, ai_percentage, ret, file_metrics, prev, diffs,
                   llmVars, healthVars, agentVars>>

FileType_LowersConfidence ==
    /\ pc = "file_type"
    /\ IF IsNonCodeFile(call.file_path)
       THEN /\ warnings' = Append(warnings, NonCodeFileWarning)
            /\ confidence_level' = "low"
       ELSE UNCHANGED <<warnings, confidence_level>>
    /\ pc' = "return"
    /\ UNCHANGED <<interp, call, patterns, ai_percentage, ret, file_metrics, prev, diffs,
                   llmVars, healthVars, agentVars>>

\* lines 216-218
FileType ==
    /\ pc = "file_type"
    /\ warnings' = IF IsNonCodeFile(call.file_path)
                   THEN Append(warnings, NonCodeFileWarning)
                   ELSE warnings
    /\ pc' = "return"
    /\ UNCHANGED <<interp, call, patterns, ai_percentage, confidence_level, ret, file_metrics, prev, diffs,
                   llmVars, healthVars, agentVars>>

\* lines 220-230
ReturnResult ==
    /\ pc = "return"
    /\ ret' = DetectionResult(ai_percentage, confidence_level, patterns, warnings,
                              call.added_lines, call.file_path)
    /\ pc' = "done"
    /\ UNCHANGED <<interp, call, patterns, warnings, ai_percentage, confidence_level, file_metrics, prev, diffs,
                   llmVars, healthVars, agentVars>>

\* calculate_risk(...) is called and returns
CallCalculateRisk ==
    /\ pc = "idle"
    /\ \E ai \in RiskAIPercentages, cd \in RiskComplexityDeltas, n \in RiskAddedLines,
          path \in RiskFilePaths, has_tests \in BOOLEAN :
         /\ call' = [ fn |-> "calculate_risk", ai_percentage |-> ai,
                      complexity_delta |-> cd, added_lines |-> n,
                      file_path |-> path, has_tests |-> has_tests ]
         /\ ret' = CalculateRisk(ai, cd, n, path, has_tests, interp)
    /\ pc' = "done"
    /\ UNCHANGED <<interp, patterns, warnings, ai_percentage, confidence_level, file_metrics, prev, diffs,
                   llmVars, healthVars, agentVars>>

\* detect_ai_patterns(code, added_lines) is called and returns
CallDetectAIPatterns ==
    /\ pc = "idle"
    /\ \E in \in PatternInputs :
       LET code == in[1]
           n    == in[2]
       IN
         /\ call' = [fn |-> "detect_ai_patterns", code |-> code, added_lines |-> n]
         /\ ret' = DetectAIPatterns(code, n, interp)
    /\ pc' = "done"
    /\ UNCHANGED <<interp, patterns, warnings, ai_percentage, confidence_level, file_metrics, prev, diffs,
                   llmVars, healthVars, agentVars>>

\* the caller has taken the returned value; the detector keeps nothing
Finish ==
    /\ pc = "done"
    /\ pc' = "idle"
    /\ call' = NoCall
    /\ patterns' = <<>>
    /\ warnings' = <<>>
    /\ ai_percentage' = Zero
    /\ confidence_level' = "none"
    /\ ret' = NoCall
    /\ prev' = NoCall
    /\ UNCHANGED <<interp, file_metrics, diffs,
                   llmVars, healthVars, agentVars>>

Next ==
    \/ CallCalculateAIPercentage
    \/ ReturnEmptyDiff
    \/ DetectPatterns
    \/ ScoreNoPatterns
    \/ ScorePatterns
    \/ SmallChange
    \/ FileType
    \/ ReturnResult
    \/ CallCalculateRisk
    \/ Finish

Spec == Init /\ [][Next]_vars

\* detect_ai_patterns called on its own
NextPatterns ==
    \/ CallDetectAIPatterns
    \/ Finish

SpecPatterns == Init /\ [][NextPatterns]_vars

AddFileMetrics_ReplacesSamePath ==
    /\ pc = "idle"
    /\ Len(file_metrics) < MaxFiles
    /\ \E metrics \in FileMetricsValues :
         file_metrics' =
             IF \E i \in 1..Len(file_metrics) : file_metrics[i].file_path = metrics.file_path
             THEN [i \in 1..Len(file_metrics) |->
                      IF file_metrics[i].file_path = metrics.file_path
                      THEN metrics ELSE file_metrics[i]]
             ELSE Append(file_metrics, metrics)
    /\ UNCHANGED <<interp, pc, call, patterns, warnings, ai_percentage,
                   confidence_level, ret, prev, diffs,
                   llmVars, healthVars, agentVars>>

\* MetricsEngine.add_file_metrics(metrics)
AddFileMetrics ==
    /\ pc = "idle"
    /\ Len(file_metrics) < MaxFiles
    /\ \E metrics \in FileMetricsValues : file_metrics' = Append(file_metrics, metrics)
    /\ UNCHANGED <<interp, pc, call, patterns, warnings, ai_percentage,
                   confidence_level, ret, prev, diffs,
                   llmVars, healthVars, agentVars>>

\* MetricsEngine.calculate_aggregate() is called and returns
CallCalculateAggregate ==
    /\ pc = "idle"
    /\ call' = [fn |-> "calculate_aggregate"]
    /\ ret' = CalculateAggregate(file_metrics, interp)
    /\ pc' = "done"
    /\ UNCHANGED <<interp, patterns, warnings, ai_percentage, confidence_level,
                   file_metrics, prev, diffs,
                   llmVars, healthVars, agentVars>>

\* the caller keeps the aggregate it received, and remembers how many
\* records it had pushed by then
KeepAggregate ==
    /\ pc = "done"
    /\ call.fn = "calculate_aggregate"
    /\ prev' = [call |-> call, ret |-> ret, pushes |-> Len(file_metrics)]
    /\ pc' = "idle"
    /\ call' = NoCall
    /\ ret' = NoCall
    /\ UNCHANGED <<interp, patterns, warnings, ai_percentage, confidence_level,
                   file_metrics, diffs,
                   llmVars, healthVars, agentVars>>

\* a MetricsEngine receiving pushes and aggregate requests
NextMetrics ==
    \/ AddFileMetrics
    \/ CallCalculateAggregate
    \/ KeepAggregate
    \/ Finish

SpecMetrics == Init /\ [][NextMetrics]_vars

\* contents of the calls that are made twice
TwoRunContents ==
    { c \in DiffContents :
        /\ c.verbose_count \in {0, 1}
        /\ c.type_hint_count \in {0, MaxTypeHints}
        /\ c.error_handling \in {0, MaxErrorHandling}
        /\ c.helper_funcs = 0
        /\ c.lines \in {<<>>, UniformLines(MaxLines)} }

\* the caller keeps the result of its first call; the locals of the call are
\* gone, the detector and the analyzer are the same instances
KeepFirstResult ==
    /\ pc = "done"
    /\ prev = NoCall
    /\ call.fn \in {"calculate_ai_percentage", "calculate_risk"}
    /\ prev' = [call |-> call, ret |-> ret]
    /\ pc' = "idle"
    /\ call' = NoCall
    /\ patterns' = <<>>
    /\ warnings' = <<>>
    /\ ai_percentage' = Zero
    /\ confidence_level' = "none"
    /\ ret' = NoCall
    /\ UNCHANGED <<interp, file_metrics, diffs,
                   llmVars, healthVars, agentVars>>

\* calculate_ai_percentage is called again on the same detector with the
\* same diff_content and added_lines, and the same or another file_path
RepeatCalculateAIPercentage ==
    /\ pc = "idle"
    /\ prev # NoCall
    /\ prev.call.fn = "calculate_ai_percentage"
    /\ \E path \in FilePaths : call' = [prev.call EXCEPT !.file_path = path]
    /\ pc' = "entry"
    /\ patterns' = <<>>
    /\ warnings' = <<>>
    /\ ai_percentage' = Zero
    /\ confidence_level' = "none"
    /\ ret' = NoCall
    /\ UNCHANGED <<interp, file_metrics, prev, diffs,
                   llmVars, healthVars, agentVars>>

\* calculate_risk is called again on the same analyzer with the same
\* arguments
RepeatCalculateRisk ==
    /\ pc = "idle"
    /\ prev # NoCall
    /\ prev.call.fn = "calculate_risk"
    /\ call' = prev.call
    /\ ret' = CalculateRisk(prev.call.ai_percentage, prev.call.complexity_delta,
                            prev.call.added_lines, prev.call.file_path,
                            prev.call.has_tests, interp)
    /\ pc' = "done"
    /\ UNCHANGED <<interp, patterns, warnings, ai_percentage, confidence_level,
                   file_metrics, prev, diffs,
                   llmVars, healthVars, agentVars>>

\* two consecutive calls on the same detector or analyzer
NextTwoRuns ==
    \/ (prev = NoCall /\ CallCalculateAIPercentage /\ call'.diff_content \in TwoRunContents)
    \/ (prev = NoCall /\ CallCalculateRisk)
    \/ ReturnEmptyDiff
    \/ DetectPatterns
    \/ ScoreNoPatterns
    \/ ScorePatterns
    \/ SmallChange
    \/ FileType
    \/ ReturnResult
    \/ KeepFirstResult
    \/ RepeatCalculateAIPercentage
    \/ RepeatCalculateRisk
    \/ (prev # NoCall /\ Finish)

SpecTwoRuns == Init /\ [][NextTwoRuns]_vars

\* AIDetector.calculate_ai_percentage(diff_content, added_lines) is called and
\* returns
CallAIDetectorCalculateAIPercentage ==
    /\ pc = "idle"
    /\ \E code \in SimpleContents, n \in 0..MaxAddedLines :
         /\ call' = [ fn |-> "AIDetector.calculate_ai_percentage",
                      diff_content |-> code, added_lines |-> n ]
         /\ ret' = AIDetector_CalculateAIPercentage(code, n, interp)
    /\ pc' = "done"
    /\ UNCHANGED <<interp, patterns, warnings, ai_percentage, confidence_level,
                   file_metrics, prev, diffs,
                   llmVars, healthVars, agentVars>>

\* the simple detector called on its own
NextSimple ==
    \/ CallAIDetectorCalculateAIPercentage
    \/ Finish

SpecSimple == Init /\ [][NextSimple]_vars

\* lines 176-181: the diffs are read; with none the command returns
StatsGetDiffs ==
    /\ pc = "idle"
    /\ diffs = <<>>
    /\ file_metrics = <<>>
    /\ \E ds \in DiffLists :
         /\ diffs' = ds
         /\ pc' = IF ds = <<>> THEN "stats_done" ELSE "stats_loop"
    /\ UNCHANGED <<interp, call, patterns, warnings, ai_percentage, confidence_level,
                   ret, file_metrics, prev,
                   llmVars, healthVars, agentVars>>

\* lines 189-195: calculate_ai_percentage is called for the next diff
StatsDetect ==
    /\ pc = "stats_loop"
    /\ Len(file_metrics) < Len(diffs)
    /\ LET diff == diffs[Len(file_metrics) + 1]
       IN  call' = [ fn |-> "calculate_ai_percentage", diff_content |-> diff.diff_content,
                     added_lines |-> diff.added_lines, file_path |-> diff.file_path ]
    /\ pc' = "entry"
    /\ patterns' = <<>>
    /\ warnings' = <<>>
    /\ ai_percentage' = Zero
    /\ confidence_level' = "none"
    /\ ret' = NoCall
    /\ prev' = NoCall
    /\ UNCHANGED <<interp, file_metrics, diffs,
                   llmVars, healthVars, agentVars>>

StatsAssessAndPush_HasTests ==
    /\ pc = "done"
    /\ diffs # <<>>
    /\ call.fn = "calculate_ai_percentage"
    /\ LET diff == diffs[Len(file_metrics) + 1]
           stats_ai_percentage == ret.ai_percentage
           complexity_delta == diff.added_lines \div 10
           risk_score == CalculateRisk(stats_ai_percentage, complexity_delta,
                                       diff.added_lines, diff.file_path, TRUE, interp)
       IN  /\ call' = [ fn |-> "calculate_risk", ai_percentage |-> stats_ai_percentage,
                        complexity_delta |-> complexity_delta,
                        added_lines |-> diff.added_lines,
                        file_path |-> diff.file_path, has_tests |-> TRUE ]
           /\ ret' = risk_score
           /\ file_metrics' =
                  Append(file_metrics,
                         [ file_path     |-> diff.file_path,
                           ai_percentage |-> stats_ai_percentage,
                           added_lines   |-> diff.added_lines,
                           deleted_lines |-> diff.deleted_lines,
                           complexity    |-> complexity_delta,
                           risk_score    |-> risk_score.total_score,
                           risk_level    |-> risk_score.level ])
    /\ pc' = "stats_loop"
    /\ patterns' = <<>>
    /\ warnings' = <<>>
    /\ ai_percentage' = Zero
    /\ confidence_level' = "none"
    /\ prev' = [call |-> call, ret |-> ret]
    /\ UNCHANGED <<interp, diffs,
                   llmVars, healthVars, agentVars>>

\* lines 196-219: the detection result is taken, calculate_risk is called
\* with complexity_delta = added_lines // 10 and has_tests = False, and the
\* FileMetrics of the diff is pushed (prev keeps the detection result)
StatsAssessAndPush ==
    /\ pc = "done"
    /\ diffs # <<>>
    /\ call.fn = "calculate_ai_percentage"
    /\ LET diff == diffs[Len(file_metrics) + 1]
           stats_ai_percentage == ret.ai_percentage
           complexity_delta == diff.added_lines \div 10
           risk_score == CalculateRisk(stats_ai_percentage, complexity_delta,
                                       diff.added_lines, diff.file_path, FALSE, interp)
       IN  /\ call' = [ fn |-> "calculate_risk", ai_percentage |-> stats_ai_percentage,
                        complexity_delta |-> complexity_delta,
                        added_lines |-> diff.added_lines,
                        file_path |-> diff.file_path, has_tests |-> FALSE ]
           /\ ret' = risk_score
           /\ file_metrics' =
                  Append(file_metrics,
                         [ file_path     |-> diff.file_path,
                           ai_percentage |-> stats_ai_percentage,
                           added_lines   |-> diff.added_lines,
                           deleted_lines |-> diff.deleted_lines,
                           complexity    |-> complexity_delta,
                           risk_score    |-> risk_score.total_score,
                           risk_level    |-> risk_score.level ])
    /\ pc' = "stats_loop"
    /\ patterns' = <<>>
    /\ warnings' = <<>>
    /\ ai_percentage' = Zero
    /\ confidence_level' = "none"
    /\ prev' = [call |-> call, ret |-> ret]
    /\ UNCHANGED <<interp, diffs,
                   llmVars, healthVars, agentVars>>

\* line 223: after the loop the aggregate is computed
StatsAggregate ==
    /\ pc = "stats_loop"
    /\ Len(file_metrics) = Len(diffs)
    /\ call' = [fn |-> "calculate_aggregate"]
    /\ ret' = CalculateAggregate(file_metrics, interp)
    /\ pc' = "stats_done"
    /\ UNCHANGED <<interp, patterns, warnings, ai_percentage, confidence_level,
                   file_metrics, prev, diffs,
                   llmVars, healthVars, agentVars>>

\* the command returns; its analyzers and its metrics engine are dropped
StatsReturn ==
    /\ pc = "stats_done"
    /\ pc' = "idle"
    /\ call' = NoCall
    /\ ret' = NoCall
    /\ file_metrics' = <<>>
    /\ diffs' = <<>>
    /\ prev' = NoCall
    /\ UNCHANGED <<interp, patterns, warnings, ai_percentage, confidence_level,
                   llmVars, healthVars, agentVars>>

\* one run of the stats command after another
NextStats ==
    \/ StatsGetDiffs
    \/ StatsDetect
    \/ ReturnEmptyDiff
    \/ DetectPatterns
    \/ ScoreNoPatterns
    \/ ScorePatterns
    \/ SmallChange
    \/ FileType
    \/ ReturnResult
    \/ StatsAssessAndPush
    \/ StatsAggregate
    \/ StatsReturn

SpecStats == Init /\ [][NextStats]_vars

\* ------------------------------------------------------------------------
\* MultiProviderLLM (agentic/llm_provider.py)
\* ------------------------------------------------------------------------
\* class LLMProviderType(Enum)
LLMProviderType ==
    [ member \in {"GEMINI", "OPENAI", "ANTHROPIC", "LOCAL"} |->
        CASE member = "GEMINI" -> "gemini"
          [] member = "OPENAI" -> "openai"
          [] member = "ANTHROPIC" -> "anthropic"
          [] member = "LOCAL" -> "local" ]

\* name.upper() of the three names of self.providers
NameUpper == [Gemini |-> "GEMINI", OpenAI |-> "OPENAI", Anthropic |-> "ANTHROPIC"]

\* provider.model after _initialize of an available provider
ProviderModel ==
    [Gemini |-> "gemini-2.0-flash-exp", OpenAI |-> "gpt-4o-mini",
     Anthropic |-> "claude-3-5-sonnet-20241022"]

\* what a provider's generate or chat returns
ProviderTexts == {"first text", "second text"}

PriorityOrder_OpenAIFirst == <<"OpenAI", "Gemini", "Anthropic">>

\* lines 318-324: the order in which __init__ appends the available providers
PriorityOrder == <<"Gemini", "OpenAI", "Anthropic">>

\* lines 318-324: the providers for which is_available() holds, in that order
RECURSIVE AvailableProviders(_, _)
AvailableProviders(order, avail) ==
    IF order = <<>> THEN <<>>
    ELSE (IF avail[Head(order)] THEN <<Head(order)>> ELSE <<>>)
         \o AvailableProviders(Tail(order), avail)

\* lines 349-353: the LLMResponse built from a provider's text
LLMResponse(content, name) ==
    [ content     |-> content,
      provider    |-> LLMProviderType[NameUpper[name]],
      tokens_used |-> 0,
      model       |-> ProviderModel[name] ]

\* MultiProviderLLM(): each provider's _initialize finds its package and its
\* key or does not; the available ones are appended in priority order
MultiProviderLLMInit ==
    /\ pc = "idle"
    /\ \E avail \in [ProviderNames -> BOOLEAN] :
         /\ available' = avail
         /\ providers' = AvailableProviders(PriorityOrder, avail)
    /\ attempts' = <<>>
    /\ UNCHANGED <<interp, pc, call, ret, coreVars, healthVars, agentVars>>

\* generate(prompt) or chat(messages) is called
CallGenerateOrChat ==
    /\ pc = "idle"
    /\ \E fn \in {"generate", "chat"} : call' = [fn |-> fn]
    /\ pc' = "llm_loop"
    /\ attempts' = <<>>
    /\ ret' = NoCall
    /\ UNCHANGED <<interp, available, providers, coreVars, healthVars, agentVars>>

\* lines 346-355 and 361-370: the next provider of self.providers is called;
\* its text is returned in an LLMResponse, or it raises and the loop goes on
TryProvider ==
    /\ pc = "llm_loop"
    /\ Len(attempts) < Len(providers)
    /\ LET name == providers[Len(attempts) + 1]
       IN  \/ \E content \in ProviderTexts :
                /\ attempts' = Append(attempts, [provider |-> name, raised |-> FALSE,
                                                 content |-> content])
                /\ ret' = LLMResponse(content, name)
                /\ pc' = "done"
           \/ /\ attempts' = Append(attempts, [provider |-> name, raised |-> TRUE,
                                                content |-> ""])
              /\ UNCHANGED <<pc, ret>>
    /\ UNCHANGED <<interp, call, available, providers, coreVars, healthVars, agentVars>>

\* lines 357 and 372: the loop is over and no provider returned
AllProvidersFailed ==
    /\ pc = "llm_loop"
    /\ Len(attempts) = Len(providers)
    /\ ret' = [raised |-> "RuntimeError", message |-> "All LLM providers failed"]
    /\ pc' = "done"
    /\ UNCHANGED <<interp, call, llmVars, coreVars, healthVars, agentVars>>

NextLLM ==
    \/ MultiProviderLLMInit
    \/ CallGenerateOrChat
    \/ TryProvider
    \/ AllProvidersFailed
    \/ Finish

SpecLLM == Init /\ [][NextLLM]_vars

\* ------------------------------------------------------------------------
\* HealthChecker (monitoring/health_checker.py)
\* ------------------------------------------------------------------------
\* line 113: the most checks kept in self.history
HistoryLimit == 1000

\* line 216: the most checks written to monitoring.json
SaveLimit == 100

\* line 54: timeout: int = 10
DefaultTimeout == 10

\* single check_health calls before or after a long run of the monitor
MaxChecks == 2

\* status_code is None
NoStatusCode == 0

\* the response time measured for a response, in milliseconds
MeasuredResponseTime == 40

\* what requests.get does: a response with a status code, a Timeout, a
\* ConnectionError, or any other exception
RequestOutcomes ==
    { [kind |-> "response", status_code |-> code] : code \in {200, 204, 404, 503} }
    \cup { [kind |-> kind, status_code |-> NoStatusCode] :
             kind \in {"timeout", "connection_error", "exception"} }

\* lines 66-73: the status for a status code
StatusForCode(status_code) ==
    IF status_code = 200 THEN "healthy"
    ELSE IF 200 <= status_code /\ status_code < 300 THEN "healthy"
    ELSE IF 300 <= status_code /\ status_code < 500 THEN "degraded"
    ELSE "down"

\* lines 57-106: the HealthCheckResult for an outcome of the request; the
\* timestamp is the clock's reading
HealthCheckResult(outcome, timeout, now) ==
    IF outcome.kind = "response"
    THEN [ status           |-> StatusForCode(outcome.status_code),
           response_time_ms |-> MeasuredResponseTime,
           status_code      |-> outcome.status_code,
           error            |-> "None",
           timestamp        |-> now,
           headers          |-> "response headers" ]
    ELSE IF outcome.kind = "timeout"
    THEN [ status           |-> "down",
           response_time_ms |-> timeout * 1000,
           status_code      |-> NoStatusCode,
           error            |-> "Request timeout",
           timestamp        |-> now,
           headers          |-> "empty" ]
    ELSE IF outcome.kind = "connection_error"
    THEN [ status           |-> "down",
           response_time_ms |-> 0,
           status_code      |-> NoStatusCode,
           error            |-> "Connection error",
           timestamp        |-> now,
           headers          |-> "empty" ]
    ELSE [ status           |-> "unknown",
           response_time_ms |-> 0,
           status_code      |-> NoStatusCode,
           error            |-> "str(e)",
           timestamp        |-> now,
           headers          |-> "empty" ]

LastSlice_First(h, n) == IF Len(h) > n THEN SubSeq(h, 1, n) ELSE h

\* h[-n:]
LastSlice(h, n) == IF Len(h) > n THEN SubSeq(h, Len(h) - n + 1, Len(h)) ELSE h

\* lines 109-113: the result is appended and only the last 1000 are kept
AppendToHistory(h, result) ==
    LET appended == Append(h, result)
    IN  IF Len(appended) > HistoryLimit THEN LastSlice(appended, HistoryLimit) ELSE appended

\* lines 201-219: what _save_history writes, the last 100 without headers
SavedHistory(h) ==
    LET last == LastSlice(h, SaveLimit)
    IN  [ exists  |-> TRUE,
          history |-> [ i \in 1..Len(last) |->
                          [ status           |-> last[i].status,
                            response_time_ms |-> last[i].response_time_ms,
                            status_code      |-> last[i].status_code,
                            error            |-> last[i].error,
                            timestamp        |-> last[i].timestamp ] ] ]

\* lines 224-244: what _load_history reads back, with empty headers
LoadedHistory(file) ==
    IF file.exists
    THEN [ i \in 1..Len(file.history) |->
             [ status           |-> file.history[i].status,
               response_time_ms |-> file.history[i].response_time_ms,
               status_code      |-> file.history[i].status_code,
               error            |-> file.history[i].error,
               timestamp        |-> file.history[i].timestamp,
               headers          |-> "empty" ] ]
    ELSE <<>>

\* the checks of a monitor that has run long without a failure
LongRun == HistoryLimit - 1

\* HealthChecker(url): a new checker loads the history of the state file
HealthCheckerInit ==
    /\ pc = "idle"
    /\ history' = LoadedHistory(state_file)
    /\ checks' = 0
    /\ call' = NoCall
    /\ ret' = NoCall
    /\ UNCHANGED <<interp, pc, state_file, clock, coreVars, llmVars, agentVars>>

\* check_health(): the request is made, the result is appended, the history
\* is trimmed and saved, and the result is returned
CheckHealth ==
    /\ pc = "idle"
    /\ clock % LongRun < MaxChecks
    /\ \E outcome \in RequestOutcomes :
         LET result == HealthCheckResult(outcome, DefaultTimeout, clock + 1)
         IN  /\ history' = AppendToHistory(history, result)
             /\ state_file' = SavedHistory(history')
             /\ ret' = result
    /\ call' = [fn |-> "check_health"]
    /\ checks' = checks + 1
    /\ clock' = clock + 1
    /\ UNCHANGED <<interp, pc, coreVars, llmVars, agentVars>>

\* monitor.py, lines 58-62: the monitoring loop of a new checker without a
\* state file calls check_health LongRun times and every response is 200
\* (below HistoryLimit nothing is trimmed)
MonitorLoop ==
    /\ pc = "idle"
    /\ clock = 0
    /\ history = <<>>
    /\ history' = [ i \in 1..LongRun |->
                      HealthCheckResult([kind |-> "response", status_code |-> 200],
                                        DefaultTimeout, i) ]
    /\ state_file' = SavedHistory(history')
    /\ ret' = history'[LongRun]
    /\ call' = [fn |-> "check_health"]
    /\ checks' = LongRun
    /\ clock' = LongRun
    /\ UNCHANGED <<interp, pc, coreVars, llmVars, agentVars>>

\* lines 179-184: get_current_status()
GetCurrentStatus ==
    /\ pc = "idle"
    /\ call' = [fn |-> "get_current_status"]
    /\ ret' = [value |-> IF history = <<>> THEN "unknown"
                          ELSE history[Len(history)].status]
    /\ UNCHANGED <<interp, pc, coreVars, llmVars, healthVars, agentVars>>

NextHealth ==
    \/ HealthCheckerInit
    \/ CheckHealth
    \/ MonitorLoop
    \/ GetCurrentStatus

SpecHealth == Init /\ [][NextHealth]_vars

\* ------------------------------------------------------------------------
\* AutonomousAgent (agentic/core.py)
\* ------------------------------------------------------------------------
MaxIterations == 3

\* goal descriptions: "Reduce risk", "improve quality", "Refactor"
GoalDescriptions ==
    { <<"R", "e", "d", "u", "c", "e", " ", "r", "i", "s", "k">>,
      <<"i", "m", "p", "r", "o", "v", "e", " ", "q", "u", "a", "l", "i", "t", "y">>,
      <<"R", "e", "f", "a", "c", "t", "o", "r">> }

\* the goals given to set_goal; current_value starts at 0.0
AgentGoals ==
    [ id : {"goal"}, description : GoalDescriptions, target_value : {0, 100},
      current_value : {Zero} ]

\* the tools a caller registers
ToolNames == {"analyze_repository", "security_scan"}

\* what a registered tool returns: failure, success, success with a
\* risk_reduction of 50, success with a quality_improvement of 100
ToolResults ==
    { [success |-> FALSE, metric |-> "none", amount |-> Zero, error |-> "None"],
      [success |-> TRUE, metric |-> "none", amount |-> Zero, error |-> "None"],
      [success |-> TRUE, metric |-> "risk_reduction", amount |-> FromInt(50),
       error |-> "None"],
      [success |-> TRUE, metric |-> "quality_improvement", amount |-> FromInt(100),
       error |-> "None"] }

\* lines 39-41: AgentGoal.is_achieved
IsAchieved(goal) == FGe(goal.current_value, FromInt(goal.target_value))

\* lines 33-37: AgentGoal.progress
GoalProgress(goal) ==
    IF goal.target_value = 0 THEN Zero
    ELSE FMin(FromInt(100),
              FMul(FDiv(goal.current_value, goal.target_value), FromInt(100)))

AgentAction(id, type, tool) == [id |-> id, type |-> type, tool |-> tool, executed |-> FALSE]

\* lines 456-541: _generate_plan_steps
GeneratePlanSteps(goal) ==
    IF /\ Contains(Lower(goal.description), <<"r", "e", "d", "u", "c", "e">>)
       /\ Contains(Lower(goal.description), <<"r", "i", "s", "k">>)
    THEN << AgentAction("step_1", "analyze", "analyze_repository"),
            AgentAction("step_2", "scan", "security_scan"),
            AgentAction("step_3", "fix", "apply_fixes"),
            AgentAction("step_4", "verify", "verify_fixes") >>
    ELSE IF /\ Contains(Lower(goal.description), <<"i", "m", "p", "r", "o", "v", "e">>)
            /\ Contains(Lower(goal.description), <<"q", "u", "a", "l", "i", "t", "y">>)
    THEN << AgentAction("step_1", "analyze", "quality_analysis"),
            AgentAction("step_2", "refactor", "suggest_refactoring"),
            AgentAction("step_3", "test", "generate_tests") >>
    ELSE << AgentAction("step_1", "analyze", "analyze_repository") >>

\* lines 160-192: plan(goal)
Plan(goal) == [id |-> "plan", goal_id |-> goal.id, steps |-> GeneratePlanSteps(goal)]

\* lines 64-69: AgentPlan.next_action, as the index of the step (0 for None)
NextAction(plan) ==
    IF \E k \in 1..Len(plan.steps) : ~plan.steps[k].executed
    THEN CHOOSE k \in 1..Len(plan.steps) :
             /\ ~plan.steps[k].executed
             /\ \A j \in 1..(k - 1) : plan.steps[j].executed
    ELSE 0

\* lines 71-76: AgentPlan.progress
PlanProgress(plan) ==
    IF plan.steps = <<>> THEN Zero
    ELSE FMul(FDiv(FromInt(Cardinality({k \in 1..Len(plan.steps) : plan.steps[k].executed})),
                   Len(plan.steps)),
              FromInt(100))

\* lines 201-205 and 222-226: the result of execute when nothing was executed
ExecuteFailure(error) == [success |-> FALSE, metric |-> "none", amount |-> Zero, error |-> error]

\* lines 544-557: _update_goal_progress
UpdateGoalProgress(goal, result, plan) ==
    IF result.metric = "risk_reduction" \/ result.metric = "quality_improvement"
    THEN [goal EXCEPT !.current_value = FAdd(goal.current_value, result.amount)]
    ELSE IF result.success
    THEN [goal EXCEPT !.current_value =
              FAdd(goal.current_value, FDiv(FromInt(100), Len(plan.steps)))]
    ELSE goal

\* lines 123-138: set_goal(goal)
SetGoal ==
    /\ pc = "idle"
    /\ \E goal \in AgentGoals : current_goal' = goal
    /\ agent_state' = "planning"
    /\ UNCHANGED <<interp, pc, call, ret, current_plan, tools, iteration, results,
                   coreVars, llmVars, healthVars>>

\* lines 375-377: register_tool(name, func)
RegisterTool ==
    /\ pc = "idle"
    /\ \E name \in ToolNames : tools' = tools \cup {name}
    /\ UNCHANGED <<interp, pc, call, ret, agent_state, current_goal, current_plan,
                   iteration, results, coreVars, llmVars, healthVars>>

\* lines 239-246: run_autonomous(max_iterations) is called
CallRunAutonomous ==
    /\ pc = "idle"
    /\ \E max_iterations \in 0..MaxIterations :
         call' = [fn |-> "run_autonomous", max_iterations |-> max_iterations]
    /\ pc' = "agent_while"
    /\ iteration' = 0
    /\ results' = [iterations |-> 0, actions_taken |-> <<>>, goal_achieved |-> FALSE]
    /\ ret' = NoCall
    /\ UNCHANGED <<interp, agent_state, current_goal, current_plan, tools,
                   coreVars, llmVars, healthVars>>

\* lines 194-225 and 265-277: the next action is executed with the outcome of
\* its tool, recorded in actions_taken, and the goal progress is updated
ExecuteNextAction(plan, k) ==
    LET action == plan.steps[k]
    IN  \E outcome \in (IF action.tool \in tools
                         THEN {[raised |-> TRUE, result |-> ExecuteFailure("str(e)")]}
                              \cup {[raised |-> FALSE, result |-> r] : r \in ToolResults}
                         ELSE {[raised |-> TRUE, result |-> ExecuteFailure("not registered")]}) :
            LET result   == outcome.result
                executed == [plan EXCEPT !.steps[k].executed = ~outcome.raised]
            IN  /\ current_plan' = executed
                /\ results' = [results EXCEPT !.actions_taken =
                                   Append(@, [action |-> action.type, result |-> result])]
                /\ current_goal' = IF current_goal # NoGoal /\ result.success
                                    THEN UpdateGoalProgress(current_goal, result, executed)
                                    ELSE current_goal
                /\ agent_state' = "observing"
                /\ UNCHANGED pc

\* lines 248-285: one pass of the while loop
RunIteration ==
    /\ pc = "agent_while"
    /\ iteration < call.max_iterations
    /\ iteration' = iteration + 1
    /\ IF current_goal # NoGoal /\ IsAchieved(current_goal)
       THEN /\ results' = [results EXCEPT !.goal_achieved = TRUE]
            /\ agent_state' = "completed"
            /\ pc' = "agent_break"
            /\ UNCHANGED <<current_goal, current_plan>>
       ELSE LET planned == current_plan = NoPlan /\ current_goal # NoGoal
                plan    == IF planned THEN Plan(current_goal) ELSE current_plan
            IN  IF plan = NoPlan
                THEN /\ pc' = "agent_break"
                     /\ UNCHANGED <<agent_state, current_goal, current_plan, results>>
                ELSE IF NextAction(plan) # 0
                THEN ExecuteNextAction(plan, NextAction(plan))
                ELSE IF current_goal # NoGoal /\ ~IsAchieved(current_goal)
                THEN /\ current_plan' = Plan(current_goal)
                     /\ agent_state' = "observing"
                     /\ UNCHANGED <<pc, current_goal, results>>
                ELSE /\ pc' = "agent_break"
                     /\ current_plan' = plan
                     /\ agent_state' = IF planned THEN "planning" ELSE agent_state
                     /\ UNCHANGED <<current_goal, results>>
    /\ UNCHANGED <<interp, call, ret, tools, coreVars, llmVars, healthVars>>

\* lines 287-298: the loop is left and the results are returned
ReturnResults ==
    /\ \/ pc = "agent_break"
       \/ pc = "agent_while" /\ iteration >= call.max_iterations
    /\ ret' = [ iterations    |-> iteration,
                actions_taken |-> results.actions_taken,
                goal_achieved |-> results.goal_achieved,
                final_state   |->
                    [ state         |-> agent_state,
                      goal_progress |-> IF current_goal # NoGoal
                                        THEN GoalProgress(current_goal) ELSE Zero,
                      plan_progress |-> IF current_plan # NoPlan
                                        THEN PlanProgress(current_plan) ELSE Zero ] ]
    /\ pc' = "done"
    /\ iteration' = 0
    /\ results' = NoCall
    /\ UNCHANGED <<interp, call, agent_state, current_goal, current_plan, tools,
                   coreVars, llmVars, healthVars>>

NextAgent ==
    \/ SetGoal
    \/ RegisterTool
    \/ CallRunAutonomous
    \/ RunIteration
    \/ ReturnResults
    \/ Finish

SpecAgent == Init /\ [][NextAgent]_vars

\* ------------------------------------------------------------------------
\* Properties
\* ------------------------------------------------------------------------
Returned(fn) == pc = "done" /\ call.fn = fn

InSeq(x, seq) == \E i \in 1..Len(seq) : seq[i] = x

HasPattern(ps, type) == \E i \in 1..Len(ps) : ps[i].pattern_type = type

\* C1: calculate_ai_percentage returns ai_percentage 0.0 with confidence_level
\* "high" exactly when added_lines is 0, and then patterns and warnings are
\* empty.
C1_ZeroHighIffNothingAdded ==
    Returned("calculate_ai_percentage") =>
        /\ (ret.ai_percentage = Zero /\ ret.confidence_level = "high")
               <=> call.added_lines = 0
        /\ call.added_lines = 0 => ret.patterns = <<>> /\ ret.warnings = <<>>

C1_Witness ==
    /\ Returned("calculate_ai_percentage")
    /\ call.added_lines = 0
    /\ call.diff_content.verbose_count > 0
    /\ ret.ai_percentage = Zero
    /\ ret.confidence_level = "high"

\* C2: every returned ai_percentage lies in [0.0, 1.0] and every returned
\* total_score lies in [0.0, 5.0].
C2_PercentageAndScoreBounded ==
    /\ Returned("calculate_ai_percentage") =>
           FLe(Zero, ret.ai_percentage) /\ FLe(ret.ai_percentage, One)
    /\ Returned("calculate_risk") =>
           FLe(Zero, ret.total_score) /\ FLe(ret.total_score, FromInt(5))

C2_Witness ==
    /\ Returned("calculate_risk")
    /\ Len(ret.factors) = 5
    /\ FGt(ret.total_score, FromInt(3))

\* C3: with 1 <= added_lines < 10 the returned confidence_level is "low" and
\* the warnings hold the very-small-change warning, whatever patterns matched;
\* ai_percentage and patterns are what the base computation produced.
C3_SmallChangeForcesLow ==
    (Returned("calculate_ai_percentage") /\ call.added_lines \in 1..9) =>
        /\ ret.confidence_level = "low"
        /\ InSeq(VerySmallChangeWarning, ret.warnings)
        /\ ret.patterns = DetectAIPatterns(call.diff_content, call.added_lines, interp)
        /\ ret.ai_percentage =
               PyRound(IF ret.patterns = <<>> THEN NoPatternPercentage
                       ELSE WeightedScore(ret.patterns, interp), 100)

C3_Witness ==
    /\ Returned("calculate_ai_percentage")
    /\ call.added_lines \in 1..9
    /\ Len(ret.patterns) >= 3
    /\ ConfidenceLevel(Len(ret.patterns), WeightedScore(ret.patterns, interp)) = "high"
    /\ ret.confidence_level = "low"

\* Of the four warnings only the very-small-change warning contains the text
\* "small change" (compared in lower case).
MentionsSmallChange(w) == w = VerySmallChangeWarning

\* C4: with 1 <= added_lines < 10 the first entry of the returned warnings is
\* the warning that mentions "small change".
C4_SmallChangeWarningFirst ==
    (Returned("calculate_ai_percentage") /\ call.added_lines \in 1..9) =>
        /\ ret.warnings # <<>>
        /\ MentionsSmallChange(ret.warnings[1])

\* The file_path ends in .md, .txt, .json, .yml or .yaml.
NamesNonCodeFile(file_path) ==
    \/ EndsWith(file_path, <<".", "m", "d">>)
    \/ EndsWith(file_path, <<".", "t", "x", "t">>)
    \/ EndsWith(file_path, <<".", "j", "s", "o", "n">>)
    \/ EndsWith(file_path, <<".", "y", "m", "l">>)
    \/ EndsWith(file_path, <<".", "y", "a", "m", "l">>)

\* C5 as stated: for every added_lines >= 0 a file_path with a non-code
\* extension gives the non-code-file notice.
C5_NonCodeNoticeAlways ==
    (Returned("calculate_ai_percentage") /\ NamesNonCodeFile(call.file_path)) =>
        InSeq(NonCodeFileWarning, ret.warnings)

\* C5 amended: a file_path with a non-code extension gives the non-code-file
\* notice when added_lines >= 1; with added_lines = 0 the warnings are empty
\* whatever the path.
C5_NonCodeNoticeWhenLinesAdded ==
    (Returned("calculate_ai_percentage") /\ NamesNonCodeFile(call.file_path)) =>
        /\ call.added_lines >= 1 => InSeq(NonCodeFileWarning, ret.warnings)
        /\ call.added_lines = 0 => ret.warnings = <<>>

C5_Witness ==
    /\ Returned("calculate_ai_percentage")
    /\ EndsWith(call.file_path, <<".", "j", "s", "o", "n">>)
    /\ call.added_lines >= 1
    /\ ret.ai_percentage = Lit(1, 10)
    /\ InSeq(NonCodeFileWarning, ret.warnings)

\* C6: the returned metadata holds added_lines, pattern_count and file_path,
\* equal to the added_lines argument, the number of returned patterns and
\* the file_path argument.
C6_MetadataComplete ==
    Returned("calculate_ai_percentage") =>
        /\ {"added_lines", "pattern_count", "file_path"} \subseteq DOMAIN ret.metadata
        /\ ret.metadata.added_lines = call.added_lines
        /\ ret.metadata.pattern_count = Len(ret.patterns)
        /\ ret.metadata.file_path = call.file_path

\* no signature of detect_ai_patterns is triggered by (code, added_lines)
NoSignatureTriggered(code, added_lines) ==
    /\ added_lines < 50
    /\ code.verbose_count = 0
    /\ code.type_hint_count <= 3
    /\ code.error_handling <= 2
    /\ code.helper_funcs <= 1
    /\ ~CheckConsistency(code, interp)

C8_TypedDocumentedLargeDiffIsHigh ==
    ( /\ Returned("calculate_ai_percentage")
      /\ call.added_lines >= 50
      /\ call.diff_content.type_hint_count > 3
      /\ call.diff_content.verbose_count >= 1 ) =>
        /\ HasPattern(ret.patterns, "type_hints_everywhere")
        /\ HasPattern(ret.patterns, "verbose_comments")
        /\ FGt(ret.ai_percentage, Lit(6, 10))
        /\ ret.confidence_level = "high"

C8_Witness ==
    /\ Returned("calculate_ai_percentage")
    /\ call.added_lines >= 50
    /\ call.diff_content.type_hint_count > 3
    /\ call.diff_content.verbose_count >= 1
    /\ Len(ret.patterns) = 3
    /\ ret.confidence_level = "high"

\* the large_insertion confidence returned by detect_ai_patterns
ReturnedLargeInsertion ==
    /\ Returned("detect_ai_patterns")
    /\ call.added_lines >= 50
    /\ ret # <<>>
    /\ ret[1].pattern_type = "large_insertion"

\* one unit in the last place of a float in [0.5, 1)
UlpBelowOne == Pow2(FracLimbs * LimbBits - 53)

LargeInsertionMonotone ==
    (Returned("detect_ai_patterns") /\ call.added_lines >= 50) =>
        /\ ReturnedLargeInsertion
        /\ FLe(ret[1].confidence, LargeInsertionConfidence(call.added_lines + 1))

\* C9 as stated: the large_insertion confidence never decreases as
\* added_lines grows, is 0.75 at 50, and is 0.9 at 100 and above.
C9_LargeInsertionReachesCapAt100 ==
    /\ LargeInsertionMonotone
    /\ ReturnedLargeInsertion =>
        /\ call.added_lines = 50 => ret[1].confidence = Lit(75, 100)
        /\ call.added_lines >= 100 => ret[1].confidence = Lit(9, 10)

\* C9 amended: the large_insertion confidence never decreases as added_lines
\* grows, is 0.75 at 50 and 0.9 at 101 and above; at 100 the float sum
\* 0.6 + 0.3 is 0.8999999999999999, one unit in the last place below 0.9.
C9_LargeInsertionReachesCapAt101 ==
    /\ LargeInsertionMonotone
    /\ ReturnedLargeInsertion =>
        /\ call.added_lines = 50 => ret[1].confidence = Lit(75, 100)
        /\ call.added_lines >= 101 => ret[1].confidence = Lit(9, 10)
        /\ call.added_lines = 100 =>
               BigAdd(ret[1].confidence, UlpBelowOne) = Lit(9, 10)

C9_Witness ==
    /\ ReturnedLargeInsertion
    /\ call.added_lines = 101
    /\ ret[1].confidence = Lit(9, 10)

\* C10: every pattern returned by detect_ai_patterns has a confidence in
\* [0, 1].
C10_ConfidenceInUnitInterval ==
    Returned("detect_ai_patterns") =>
        \A i \in 1..Len(ret) :
            FLe(Zero, ret[i].confidence) /\ FLe(ret[i].confidence, One)

C10_Witness ==
    /\ Returned("detect_ai_patterns")
    /\ Len(ret) = 6
    /\ call.code.verbose_count = MaxVerbose

\* the factor with this name is among the returned factors
HasFactor(fs, name) == \E i \in 1..Len(fs) : fs[i].name = name

\* no condition of calculate_risk holds for the arguments of the call
NoFactorTriggered ==
    /\ FLe(call.ai_percentage, Lit(5, 10))
    /\ call.complexity_delta <= 10
    /\ call.added_lines <= 100
    /\ ~(\E kw \in SECURITY_SENSITIVE_FILES : Contains(Lower(call.file_path), kw))
    /\ (call.has_tests \/ call.added_lines <= 50)

\* C11: with no factor triggered calculate_risk returns total_score 1.0,
\* level "low" and no factors; otherwise total_score is min(5.0, mean of the
\* factor scores) rounded to one decimal, and never exceeds the largest
\* factor score.
C11_BaselineOrMeanOfFactors ==
    Returned("calculate_risk") =>
        /\ NoFactorTriggered <=> ret.factors = <<>>
        /\ ret.factors = <<>> =>
               ret.total_score = One /\ ret.level = "low"
        /\ ret.factors # <<>> =>
               /\ ret.total_score =
                      PyRound(FMin(FromInt(5),
                                   FDiv(PySum(Scores(ret.factors), interp),
                                        Len(ret.factors))), 10)
               /\ \E i \in 1..Len(ret.factors) :
                      FLe(ret.total_score, ret.factors[i].score)

C11_Witness ==
    /\ Returned("calculate_risk")
    /\ Len(ret.factors) = 3
    /\ HasFactor(ret.factors, "High Complexity Increase")
    /\ FLt(ret.total_score, Lit(45, 10))
    /\ FGt(ret.total_score, FromInt(3))

\* the file_path of the call contains a security keyword (in any case)
SecuritySensitivePath ==
    \E kw \in SECURITY_SENSITIVE_FILES : Contains(Lower(call.file_path), kw)

\* C12 as stated: for a security-sensitive file_path the factors include
\* "Security-Sensitive File" and total_score >= 3.0, whatever the other
\* arguments.
C12_SecuritySensitiveAtLeastThree ==
    (Returned("calculate_risk") /\ SecuritySensitivePath) =>
        /\ HasFactor(ret.factors, "Security-Sensitive File")
        /\ FGe(ret.total_score, FromInt(3))

\* C12 amended: for a security-sensitive file_path the factors include
\* "Security-Sensitive File" and total_score >= 2.8; total_score >= 3.0
\* unless "Moderate AI Contribution" and "Significant Code Addition" are both
\* triggered and "High Complexity Increase" is not, where the mean is 2.8 or
\* 2.9.
C12_SecuritySensitiveUnlessDiluted ==
    (Returned("calculate_risk") /\ SecuritySensitivePath) =>
        LET diluted == /\ FGt(call.ai_percentage, Lit(5, 10))
                       /\ FLe(call.ai_percentage, Lit(7, 10))
                       /\ call.added_lines > 100
                       /\ call.added_lines <= 200
                       /\ call.complexity_delta <= 20
        IN  /\ HasFactor(ret.factors, "Security-Sensitive File")
            /\ FGe(ret.total_score, Lit(28, 10))
            /\ diluted <=> FLt(ret.total_score, FromInt(3))
            /\ diluted => ret.total_score \in {Lit(28, 10), Lit(29, 10)}

C12_Witness ==
    /\ Returned("calculate_risk")
    /\ SecuritySensitivePath
    /\ call.file_path[1] = "A"
    /\ Len(ret.factors) = 3
    /\ ret.total_score = Lit(28, 10)
    /\ ret.level = "medium"

\* C13: with ai_percentage > 0.7 and a security-sensitive file_path the
\* factors include "High AI Contribution" and "Security-Sensitive File",
\* total_score >= 3.0 and level is "high" or "critical".
C13_HighAIOnSensitiveFile ==
    ( /\ Returned("calculate_risk")
      /\ FGt(call.ai_percentage, Lit(7, 10))
      /\ SecuritySensitivePath ) =>
        /\ HasFactor(ret.factors, "High AI Contribution")
        /\ HasFactor(ret.factors, "Security-Sensitive File")
        /\ FGe(ret.total_score, FromInt(3))
        /\ ret.level \in {"high", "critical"}

C13_Witness ==
    /\ Returned("calculate_risk")
    /\ call.ai_percentage = Lit(71, 100)
    /\ SecuritySensitivePath
    /\ Len(ret.factors) = 5
    /\ ret.level = "high"

\* |k * avg - (sum of xs)| <= k * tol, in exact arithmetic
MeanWithin(avg, xs, tol) ==
    LET k == Len(xs)
        A == MulSmall(avg, k)
        S == Strip(SumExact(xs))
        D == IF BigLt(A, S) THEN BigSub(S, A) ELSE BigSub(A, S)
    IN  ~BigLt(MulSmall(tol, k), D)

\* half a hundredth, with room for the rounding of the float operations
HalfCent == BigAdd(Lit(5, 1000), Pow2(FracLimbs * LimbBits - 40))

\* C14: with no file pushed calculate_aggregate returns zero in every field;
\* otherwise total_files is the number of entries, the three totals are plain
\* sums, the two averages are the arithmetic means rounded to 2 decimals, and
\* high_risk_files counts the entries whose risk_level is "high" or
\* "critical".
C14_AggregateOfPushedMetrics ==
    Returned("calculate_aggregate") =>
        LET n == Len(file_metrics)
            ais   == [i \in 1..n |-> file_metrics[i].ai_percentage]
            risks == [i \in 1..n |-> file_metrics[i].risk_score]
        IN  /\ ret.total_files = n
            /\ ret.total_added_lines = IntSum([i \in 1..n |-> file_metrics[i].added_lines])
            /\ ret.total_deleted_lines = IntSum([i \in 1..n |-> file_metrics[i].deleted_lines])
            /\ ret.total_complexity_delta = IntSum([i \in 1..n |-> file_metrics[i].complexity])
            /\ ret.high_risk_files =
                   Cardinality({i \in 1..n : file_metrics[i].risk_level \in {"high", "critical"}})
            /\ ret.high_risk_files >= 0 /\ ret.high_risk_files <= ret.total_files
            /\ n = 0 => ret.average_ai_percentage = Zero /\ ret.average_risk_score = Zero
            /\ n > 0 =>
                   /\ ret.average_ai_percentage = Lit(RoundDigits(FDiv(PySum(ais, interp), n), 100), 100)
                   /\ ret.average_risk_score = Lit(RoundDigits(FDiv(PySum(risks, interp), n), 100), 100)
                   /\ MeanWithin(ret.average_ai_percentage, ais, HalfCent)
                   /\ MeanWithin(ret.average_risk_score, risks, HalfCent)

C14_Witness ==
    /\ Returned("calculate_aggregate")
    /\ Len(file_metrics) = 3
    /\ ret.high_risk_files = 1
    /\ \E i \in 1..3 : file_metrics[i].risk_level = "high"
    /\ \E i \in 1..3 : file_metrics[i].complexity < 0
    /\ FGt(ret.average_ai_percentage, Zero)

\* the warnings other than the non-code-file notice
WithoutNotice(ws) == SelectSeq(ws, LAMBDA w : w # NonCodeFileWarning)

\* the metadata other than file_path
WithoutFilePath(md) == [k \in DOMAIN md \ {"file_path"} |-> md[k]]

\* C15: two calls with identical arguments on the same detector or analyzer
\* return identical results, and two calls of calculate_ai_percentage that
\* differ only in file_path return the same ai_percentage, confidence_level
\* and patterns, and differ at most in the non-code-file notice and in
\* metadata.file_path.
C15_TwoRunDeterminism ==
    (pc = "done" /\ prev # NoCall) =>
        /\ prev.call = call => prev.ret = ret
        /\ ( /\ call.fn = "calculate_ai_percentage"
             /\ prev.call.fn = "calculate_ai_percentage"
             /\ prev.call.diff_content = call.diff_content
             /\ prev.call.added_lines = call.added_lines ) =>
               /\ prev.ret.ai_percentage = ret.ai_percentage
               /\ prev.ret.confidence_level = ret.confidence_level
               /\ prev.ret.patterns = ret.patterns
               /\ WithoutNotice(prev.ret.warnings) = WithoutNotice(ret.warnings)
               /\ WithoutFilePath(prev.ret.metadata) = WithoutFilePath(ret.metadata)

C15_Witness ==
    /\ pc = "done"
    /\ prev # NoCall
    /\ call.fn = "calculate_ai_percentage"
    /\ call.added_lines >= 50
    /\ ret.patterns # <<>>
    /\ prev.call.file_path # call.file_path
    /\ InSeq(NonCodeFileWarning, ret.warnings)
    /\ ~InSeq(NonCodeFileWarning, prev.ret.warnings)
    /\ prev.ret.ai_percentage = ret.ai_percentage

C17_MeanWithBoostFromFour ==
    ( /\ Returned("calculate_ai_percentage")
      /\ call.added_lines > 0
      /\ ret.patterns # <<>> ) =>
        LET n     == Len(ret.patterns)
            confs == [i \in 1..n |-> ret.patterns[i].confidence]
            mean  == FDiv(PySum(confs, interp), n)
            S     == Strip(SumExact(confs))
            cap   == MulSmall(One, 5 * n)
            want  == IF n >= 4
                     THEN (IF BigLt(cap, MulSmall(S, 6)) THEN cap ELSE MulSmall(S, 6))
                     ELSE MulSmall(S, 5)
            got   == MulSmall(ret.ai_percentage, 5 * n)
            diff  == IF BigLt(got, want) THEN BigSub(want, got) ELSE BigSub(got, want)
        IN  /\ ret.ai_percentage =
                   PyRound(IF n >= 4 THEN FMin(One, FMul(FMin(One, mean), Lit(12, 10)))
                           ELSE FMin(One, mean), 100)
            /\ ~BigLt(MulSmall(HalfCent, 5 * n), diff)

C17_Witness ==
    /\ Returned("calculate_ai_percentage")
    /\ call.added_lines >= 10
    /\ Len(ret.patterns) = 4
    /\ \A i \in 1..4 : FGt(ret.ai_percentage, ret.patterns[i].confidence)

\* C18: with added_lines >= 10 and at least one pattern, confidence_level is
\* the function of the returned pattern count and the returned (rounded)
\* ai_percentage: "high" if count >= 3 and ai_percentage > 0.6, else "medium"
\* if count >= 2 or ai_percentage > 0.4, else "low" with the
\* limited-indicators warning.
C18_LevelMatchesReportedPair ==
    ( /\ Returned("calculate_ai_percentage")
      /\ call.added_lines >= 10
      /\ ret.patterns # <<>> ) =>
        LET n  == ret.metadata.pattern_count
            ai == ret.ai_percentage
        IN  /\ n = Len(ret.patterns)
            /\ ret.confidence_level =
                   IF n >= 3 /\ BigLt(Lit(6, 10), ai) THEN "high"
                   ELSE IF n >= 2 \/ BigLt(Lit(4, 10), ai) THEN "medium"
                   ELSE "low"
            /\ ret.confidence_level = "low" =>
                   InSeq(LimitedIndicatorsWarning, ret.warnings)

\* the position of a signature in the signature table
TableRank(type) ==
    CASE type = "large_insertion" -> 1
      [] type = "verbose_comments" -> 2
      [] type = "type_hints_everywhere" -> 3
      [] type = "comprehensive_error_handling" -> 4
      [] type = "helper_function_naming" -> 5
      [] type = "consistent_style" -> 6

\* the signature is reported exactly when cond holds, and then with conf
ReportedIff(type, cond, conf) ==
    /\ HasPattern(ret, type) <=> cond
    /\ \A i \in 1..Len(ret) : ret[i].pattern_type = type => ret[i].confidence = conf

StyleLines == SelectSeq(call.code.lines, LAMBDA l : l[2] > 0)

\* the three conditions of consistent_style in exact integer arithmetic:
\* at least 5 non-blank lines, distinct indentation widths / lines < 3/10,
\* and sum |len - mean| / lines < 20 (scaled by the square of the line count)
StyleIsConsistent ==
    LET n    == Len(StyleLines)
        lens == [i \in 1..n |-> StyleLines[i][1] + StyleLines[i][2]]
        S    == IntSum(lens)
        dev  == IntSum([i \in 1..n |->
                    IF n * lens[i] >= S THEN n * lens[i] - S ELSE S - n * lens[i]])
    IN  /\ n >= 5
        /\ 10 * Cardinality({StyleLines[i][1] : i \in 1..n}) < 3 * n
        /\ dev < 20 * n * n

\* C20: consistent_style is reported, with confidence 0.6, exactly when the
\* text has at least 5 non-blank lines, indentation diversity below 0.3 and
\* mean absolute deviation of the line length below 20; with fewer than 5
\* non-blank lines it is never reported.
C20_ConsistentStyle ==
    Returned("detect_ai_patterns") =>
        /\ HasPattern(ret, "consistent_style") <=> StyleIsConsistent
        /\ Len(StyleLines) < 5 => ~HasPattern(ret, "consistent_style")
        /\ \A i \in 1..Len(ret) :
               ret[i].pattern_type = "consistent_style" =>
                   i = Len(ret) /\ ret[i].confidence = Lit(6, 10)

C20_Witness ==
    /\ Returned("detect_ai_patterns")
    /\ Len(StyleLines) = 7
    /\ Cardinality({StyleLines[i][1] : i \in 1..7}) = 2
    /\ HasPattern(ret, "consistent_style")

\* the returned factors hold exactly one factor of the rule when expected
\* names one (with that score and severity) and none of the rule otherwise
RuleGives(names, expected, score, severity) ==
    LET of_rule == {i \in 1..Len(ret.factors) : ret.factors[i].name \in names}
    IN  IF expected = "none" THEN of_rule = {}
        ELSE /\ Cardinality(of_rule) = 1
             /\ \A i \in of_rule :
                    /\ ret.factors[i].name = expected
                    /\ ret.factors[i].score = score
                    /\ ret.factors[i].severity = severity

\* C21: calculate_risk returns exactly the factors of the five rules, at most
\* one per rule, each decided by its own argument: AI contribution (> 0.7:
\* 4.0 high; > 0.5: 2.5 medium), complexity (> 20: 4.5 critical; > 10: 3.0
\* high), insertion size (> 200: 3.5 high; > 100: 2.0 medium),
\* security-sensitive path (4.0 critical, once), missing tests (no tests and
\* added_lines > 50: 3.0 high).
C21_FactorsOfTheFiveRules ==
    Returned("calculate_risk") =>
        LET ai == call.ai_percentage
            cd == call.complexity_delta
            n  == call.added_lines
        IN  /\ Len(ret.factors) <= 5
            /\ \A i \in 1..Len(ret.factors) :
                   ret.factors[i].name \in
                       { "High AI Contribution", "Moderate AI Contribution",
                         "High Complexity Increase", "Moderate Complexity Increase",
                         "Large Code Insertion", "Significant Code Addition",
                         "Security-Sensitive File", "Missing Test Coverage" }
            /\ RuleGives({"High AI Contribution", "Moderate AI Contribution"},
                         IF BigLt(Lit(7, 10), ai) THEN "High AI Contribution"
                         ELSE IF BigLt(Lit(5, 10), ai) THEN "Moderate AI Contribution"
                         ELSE "none",
                         IF BigLt(Lit(7, 10), ai) THEN FromInt(4) ELSE Lit(25, 10),
                         IF BigLt(Lit(7, 10), ai) THEN "high" ELSE "medium")
            /\ RuleGives({"High Complexity Increase", "Moderate Complexity Increase"},
                         IF cd > 20 THEN "High Complexity Increase"
                         ELSE IF cd > 10 THEN "Moderate Complexity Increase"
                         ELSE "none",
                         IF cd > 20 THEN Lit(45, 10) ELSE FromInt(3),
                         IF cd > 20 THEN "critical" ELSE "high")
            /\ RuleGives({"Large Code Insertion", "Significant Code Addition"},
                         IF n > 200 THEN "Large Code Insertion"
                         ELSE IF n > 100 THEN "Significant Code Addition"
                         ELSE "none",
                         IF n > 200 THEN Lit(35, 10) ELSE FromInt(2),
                         IF n > 200 THEN "high" ELSE "medium")
            /\ RuleGives({"Security-Sensitive File"},
                         IF SecuritySensitivePath THEN "Security-Sensitive File" ELSE "none",
                         FromInt(4), "critical")
            /\ RuleGives({"Missing Test Coverage"},
                         IF ~call.has_tests /\ n > 50 THEN "Missing Test Coverage" ELSE "none",
                         FromInt(3), "high")

C21_Witness ==
    /\ Returned("calculate_risk")
    /\ call.ai_percentage = Lit(7, 10)
    /\ call.added_lines = 100
    /\ Contains(call.file_path, <<"a", "u", "t", "h">>)
    /\ Contains(call.file_path, <<"c", "o", "n", "f", "i", "g">>)
    /\ ~call.has_tests
    /\ Len(ret.factors) = 3
    /\ HasFactor(ret.factors, "Moderate AI Contribution")

\* C22: the returned level is the function of the returned (rounded)
\* total_score: >= 4.0 critical, >= 3.0 high, >= 2.0 medium, else low.
C22_LevelMatchesReportedScore ==
    Returned("calculate_risk") =>
        ret.level =
            IF ~BigLt(ret.total_score, FromInt(4)) THEN "critical"
            ELSE IF ~BigLt(ret.total_score, FromInt(3)) THEN "high"
            ELSE IF ~BigLt(ret.total_score, FromInt(2)) THEN "medium"
            ELSE "low"

C22_Witness ==
    /\ Returned("calculate_risk")
    /\ Len(ret.factors) = 4
    /\ ret.total_score = Lit(29, 10)
    /\ ret.level = "medium"

\* C29: level is "low" exactly when no factor is returned; with a factor
\* total_score >= 2.0; always 1.0 <= total_score <= 4.5, so the cap of 5.0
\* does not bind.
C29_RiskScoreRange ==
    Returned("calculate_risk") =>
        /\ ret.level = "low" <=> ret.factors = <<>>
        /\ ret.factors # <<>> =>
               /\ ~BigLt(ret.total_score, FromInt(2))
               /\ ret.level \in {"medium", "high", "critical"}
               /\ ~BigLt(Lit(45, 10),
                         FDiv(PySum(Scores(ret.factors), interp), Len(ret.factors)))
        /\ ~BigLt(ret.total_score, One)
        /\ ~BigLt(Lit(45, 10), ret.total_score)

C29_Witness ==
    /\ Returned("calculate_risk")
    /\ Len(ret.factors) = 1
    /\ ret.total_score = FromInt(2)
    /\ ret.level = "medium"

\* a step changes file_metrics only by appending one record, and a step that
\* returns from a call leaves file_metrics as it was
MetricsStep ==
    /\ file_metrics' # file_metrics =>
           \E m \in FileMetricsValues : file_metrics' = Append(file_metrics, m)
    /\ pc' = "done" => file_metrics' = file_metrics

\* an aggregate requested after an earlier one: equal to it when nothing was
\* pushed in between, and counting the further pushes otherwise
SecondAggregate ==
    (Returned("calculate_aggregate") /\ prev # NoCall) =>
        LET n == Len(file_metrics)
        IN  /\ n >= prev.pushes
            /\ n = prev.pushes => ret = prev.ret
            /\ n > prev.pushes =>
                   /\ ret.total_files = n
                   /\ ret.total_files > prev.ret.total_files
                   /\ ret.total_added_lines =
                          prev.ret.total_added_lines
                          + IntSum([i \in 1..(n - prev.pushes) |->
                                       file_metrics[prev.pushes + i].added_lines])
                   /\ ret.total_deleted_lines =
                          prev.ret.total_deleted_lines
                          + IntSum([i \in 1..(n - prev.pushes) |->
                                       file_metrics[prev.pushes + i].deleted_lines])

\* C23: add_file_metrics only appends (records of the same file_path are
\* kept side by side), calculate_aggregate leaves file_metrics unchanged, two
\* aggregates with no push in between are equal, and an aggregate after a
\* further push reflects it.
C23_AppendOnlyRecomputed == [][MetricsStep]_vars /\ []SecondAggregate

C23_Witness ==
    /\ Returned("calculate_aggregate")
    /\ prev # NoCall
    /\ prev.pushes = 1
    /\ Len(file_metrics) = 3
    /\ file_metrics[1].file_path = file_metrics[3].file_path
    /\ file_metrics[1] # file_metrics[3]
    /\ ret.total_files = 3
    /\ prev.ret.total_files = 1

C28_LimitedIndicatorsUnreachable ==
    Returned("calculate_ai_percentage") =>
        /\ (ret.patterns # <<>> /\ call.added_lines >= 10) =>
               ret.confidence_level \in {"medium", "high"}
        /\ ret.confidence_level = "low" =>
               (ret.patterns = <<>> \/ call.added_lines \in 1..9)
        /\ ~InSeq(LimitedIndicatorsWarning, ret.warnings)

C28_Witness ==
    /\ Returned("calculate_ai_percentage")
    /\ call.added_lines >= 10
    /\ Len(ret.patterns) = 1
    /\ ret.ai_percentage = Lit(55, 100)
    /\ ret.confidence_level = "medium"
    /\ ret.warnings = <<>>


\* the stats command has just pushed the FileMetrics of a diff: prev holds the
\* detection result of that diff and ret its RiskScore
StatsPushed == pc = "stats_loop" /\ call.fn = "calculate_risk"

\* the detection result reports a pattern other than large_insertion
ReportsContentSignature(result) ==
    \E i \in 1..Len(result.patterns) : result.patterns[i].pattern_type # "large_insertion"

\* the path of the diff contains a security keyword, whatever the case
DiffPathHasKeyword(diff) ==
    \E kw \in SECURITY_SENSITIVE_FILES : Contains(Lower(diff.file_path), kw)

\* the risk fields of the record are the RiskScore of the record's own file
OwnRiskScore(m) ==
    LET own == CalculateRisk(m.ai_percentage, m.added_lines \div 10, m.added_lines,
                             m.file_path, FALSE, interp)
    IN  m.risk_score = own.total_score /\ m.risk_level = own.level

PriorityRank(name) ==
    CASE name = "Gemini" -> 1 [] name = "OpenAI" -> 2 [] name = "Anthropic" -> 3

\* the provider tag of a provider name
ProviderTag(name) ==
    CASE name = "Gemini" -> "gemini" [] name = "OpenAI" -> "openai"
      [] name = "Anthropic" -> "anthropic"

\* generate or chat is running or has finished
InGenerateOrChat == pc \in {"llm_loop", "done"} /\ call.fn \in {"generate", "chat"}

\* C24: generate and chat call the available providers in the order Gemini,
\* OpenAI, Anthropic: the k-th provider called is the k-th available one in
\* that order and every provider called before it has raised; an unavailable
\* provider is never called; a returned LLMResponse carries the content and
\* the tag of the provider that succeeded; RuntimeError("All LLM providers
\* failed") is raised exactly when every available provider has raised.
C24_ProviderFallbackOrder ==
    InGenerateOrChat =>
        /\ \A k \in 1..Len(attempts) :
             /\ available[attempts[k].provider]
             /\ Cardinality({name \in ProviderNames :
                               /\ available[name]
                               /\ PriorityRank(name) < PriorityRank(attempts[k].provider)})
                    = k - 1
             /\ k < Len(attempts) => attempts[k].raised
        /\ pc = "done" =>
             /\ ret = [raised |-> "RuntimeError", message |-> "All LLM providers failed"]
                    <=> \A name \in ProviderNames :
                            available[name] =>
                                \E k \in 1..Len(attempts) :
                                    attempts[k].provider = name /\ attempts[k].raised
             /\ ret # [raised |-> "RuntimeError", message |-> "All LLM providers failed"]
                    => /\ attempts # <<>>
                       /\ ~attempts[Len(attempts)].raised
                       /\ ret.content = attempts[Len(attempts)].content
                       /\ ret.provider = ProviderTag(attempts[Len(attempts)].provider)

\* Gemini is unavailable, OpenAI raised and Anthropic's text was returned
C24_Witness ==
    /\ InGenerateOrChat
    /\ pc = "done"
    /\ ~available["Gemini"]
    /\ Len(attempts) = 2
    /\ attempts[1].provider = "OpenAI"
    /\ attempts[1].raised
    /\ ret.provider = "anthropic"
    /\ ret.content = "second text"


\* the smaller of two numbers
Smaller(a, b) == IF a < b THEN a ELSE b

\* the results a checker found in the state file when it was constructed:
\* the file holds the last 100 of the results made before
LoadedAtConstruction == Smaller(100, clock - checks)

\* C25: after any sequence of check_health calls, whatever the outcome of
\* each request, the history has grown by exactly one result per call up to
\* 1000, it never holds more than 1000 results, it holds the most recent
\* results in the order of the calls with none left out, the result returned
\* by a call is the last of the history, and get_current_status returns the
\* status of the most recent check, UNKNOWN when the history is empty.
C25_HistoryOfChecks ==
    /\ Len(history) <= 1000
    /\ Len(history) = Smaller(1000, LoadedAtConstruction + checks)
    /\ \A i \in 1..Len(history) : history[i].timestamp = clock - Len(history) + i
    /\ call.fn = "check_health" =>
         /\ history # <<>>
         /\ history[Len(history)] = ret
    /\ call.fn = "get_current_status" =>
         ret.value = IF history = <<>> THEN "unknown" ELSE history[Len(history)].status

\* more than 1000 checks were made, the last one got a 404, and
\* get_current_status answers DEGRADED
C25_Witness ==
    /\ call.fn = "get_current_status"
    /\ checks > 1000
    /\ Len(history) = 1000
    /\ history[1000].status_code = 404
    /\ ret.value = "degraded"


\* C26 as stated: run_autonomous returns with iterations <= max_iterations;
\* with a current goal it returns before the iteration limit only with
\* goal_achieved True and state COMPLETED; and on return goal_achieved is True
\* whenever the current goal's is_achieved() holds.
C26_RunAutonomousReportsGoal ==
    Returned("run_autonomous") =>
        /\ ret.iterations <= call.max_iterations
        /\ (current_goal # NoGoal /\ ret.iterations < call.max_iterations) =>
               (ret.goal_achieved /\ agent_state = "completed")
        /\ ( /\ current_goal # NoGoal
             /\ ~BigLt(current_goal.current_value, FromInt(current_goal.target_value)) ) =>
               ret.goal_achieved

====
